---- MODULE Spec2Model ----
(***************************************************************************)
(* cursor-usage: a batch report generator.  A CSV export is parsed into   *)
(* usage events (parser.py), folded into monthly buckets and a grand      *)
(* total (models.py, aggregator.py), rendered as a table (renderer.py)    *)
(* and written to standard output or a file by the command line entry     *)
(* point (cli.py).                                                        *)
(*                                                                         *)
(* Text is modelled as a sequence of one-character strings, so that        *)
(* parsing, lower-casing, substring search and string comparison are       *)
(* computed and not assumed.  A Decimal is a fixed-point integer counting  *)
(* units of 10^-CostDigits.                                                *)
(***************************************************************************)
EXTENDS Integers, Sequences, FiniteSets, TLC

(* ------------------------------- bounds -------------------------------- *)

\* Data rows read from one stream.
MaxRows == 3

\* Calls made on the bucket pool of the add/merge specification.
MaxOps == 3

\* Buckets in the pool of the add/merge specification.
NumBuckets == 2

\* Fractional digits a Decimal of the model carries.
CostDigits == 3

\* The longest model name of a direct call, in pieces.
MaxParts == 2

(* -------------------------------- text --------------------------------- *)

Range(s) == {s[i] : i \in 1..Len(s)}

Digits == <<"0","1","2","3","4","5","6","7","8","9">>

UpperCase == <<"A","B","C","D","E","F","G","H","I","J","K","L","M","N","O","P","Q","R","S","T","U","V","W","X","Y","Z">>

LowerCase == <<"a","b","c","d","e","f","g","h","i","j","k","l","m","n","o","p","q","r","s","t","u","v","w","x","y","z">>

\* The characters of the model in code point order.
Ascii == <<" ","+","-",".","0","1","2","3","4","5","6","7","8","9",":","@","A","B","C","D","E","F","G","H","I","J","K","L","M","N","O","P","Q","R","S","T","U","V","W","X","Y","Z","_","a","b","c","d","e","f","g","h","i","j","k","l","m","n","o","p","q","r","s","t","u","v","w","x","y","z">>

IndexOf(seq, c) == CHOOSE i \in 1..Len(seq) : seq[i] = c

DigitSet == Range(Digits)

DigitValues == [c \in DigitSet |-> IndexOf(Digits, c) - 1]

CodePoints == [c \in Range(Ascii) |-> IndexOf(Ascii, c)]

LowerOf == [c \in Range(UpperCase) |-> LowerCase[IndexOf(UpperCase, c)]]

IsDigit(c) == c \in DigitSet

DigitVal(c) == DigitValues[c]

CodePoint(c) == CodePoints[c]

AllDigits(s) == \A i \in 1..Len(s) : IsDigit(s[i])

RECURSIVE DigitsValue(_)
DigitsValue(s) ==
    IF s = <<>> THEN 0
    ELSE 10 * DigitsValue(SubSeq(s, 1, Len(s) - 1)) + DigitVal(s[Len(s)])

RECURSIVE Pow10(_)
Pow10(n) == IF n = 0 THEN 1 ELSE 10 * Pow10(n - 1)

\* str.lower()
LowerChar(c) == IF c \in DOMAIN LowerOf THEN LowerOf[c] ELSE c

Lower(s) == [i \in 1..Len(s) |-> LowerChar(s[i])]

\* sub in s
Contains(s, sub) ==
    \E i \in 1..(Len(s) - Len(sub) + 1) : SubSeq(s, i, i + Len(sub) - 1) = sub

\* a < b for str
RECURSIVE StrLess(_, _)
StrLess(a, b) ==
    IF b = <<>> THEN FALSE
    ELSE IF a = <<>> THEN TRUE
    ELSE IF a[1] = b[1] THEN StrLess(Tail(a), Tail(b))
    ELSE CodePoint(a[1]) < CodePoint(b[1])

\* n in decimal, zero-padded to at least w digits
RECURSIVE ZeroPad(_, _)
ZeroPad(n, w) ==
    IF w <= 1 /\ n < 10 THEN <<Digits[n + 1]>>
    ELSE Append(ZeroPad(n \div 10, w - 1), Digits[(n % 10) + 1])

\* Python's None, where a str is expected.
NoneVal == <<"<None>">>

(* ------------------------------ parser.py ------------------------------ *)

\* str.rstrip("Z")
RECURSIVE RStripZ(_)
RStripZ(s) ==
    IF s # <<>> /\ s[Len(s)] = "Z" THEN RStripZ(SubSeq(s, 1, Len(s) - 1)) ELSE s

\* s.split("+")[0] when "+" in s, else s
BeforePlus(s) ==
    IF "+" \in Range(s)
    THEN SubSeq(s, 1, (CHOOSE i \in 1..Len(s) : s[i] = "+" /\ \A j \in 1..(i - 1) : s[j] # "+") - 1)
    ELSE s

DateStr(raw) == BeforePlus(RStripZ(raw))

\* "HH:MM:SS", optionally followed by ".fff"
IsIsoTime(s) ==
    /\ Len(s) \in {8, 12}
    /\ AllDigits(SubSeq(s, 1, 2)) /\ s[3] = ":"
    /\ AllDigits(SubSeq(s, 4, 5)) /\ s[6] = ":"
    /\ AllDigits(SubSeq(s, 7, 8))
    /\ DigitsValue(SubSeq(s, 1, 2)) < 24
    /\ DigitsValue(SubSeq(s, 4, 5)) < 60
    /\ DigitsValue(SubSeq(s, 7, 8)) < 60
    /\ Len(s) = 12 => (s[9] = "." /\ AllDigits(SubSeq(s, 10, 12)))

\* "+HH:MM" or "-HH:MM"
IsIsoOffset(s) ==
    /\ Len(s) = 6
    /\ s[1] \in {"+", "-"}
    /\ AllDigits(SubSeq(s, 2, 3)) /\ s[4] = ":" /\ AllDigits(SubSeq(s, 5, 6))

IsIsoDate(s) ==
    /\ Len(s) = 10
    /\ AllDigits(SubSeq(s, 1, 4)) /\ s[5] = "-"
    /\ AllDigits(SubSeq(s, 6, 7)) /\ s[8] = "-"
    /\ AllDigits(SubSeq(s, 9, 10))
    /\ DigitsValue(SubSeq(s, 1, 4)) >= 1
    /\ DigitsValue(SubSeq(s, 6, 7)) \in 1..12
    /\ DigitsValue(SubSeq(s, 9, 10)) \in 1..31

\* The tail of an ISO string after the date: nothing, or "T" and a time,
\* optionally followed by a UTC offset.
IsIsoRest(s) ==
    \/ s = <<>>
    \/ /\ Len(s) >= 9
       /\ s[1] \in {"T", " "}
       /\ \/ IsIsoTime(Tail(s))
          \/ /\ Len(s) >= 15
             /\ IsIsoTime(SubSeq(s, 2, Len(s) - 6))
             /\ IsIsoOffset(SubSeq(s, Len(s) - 5, Len(s)))

\* The datetime fromisoformat makes of no string.
NoDate ==
    [ok |-> FALSE, year |-> 0, month |-> 0, day |-> 0, hour |-> 0, minute |-> 0,
     second |-> 0, microsecond |-> 0, tzinfo |-> NoneVal]

\* datetime.fromisoformat for the forms YYYY-MM-DD[THH:MM:SS[.fff][+-HH:MM]]:
\* the wall-clock fields and tzinfo (the offset as written, None for a string
\* without one), or a ValueError
FromIsoFormat(s) ==
    IF Len(s) >= 10 /\ IsIsoDate(SubSeq(s, 1, 10)) /\ IsIsoRest(SubSeq(s, 11, Len(s)))
    THEN LET rest == SubSeq(s, 11, Len(s))
             aware == rest # <<>> /\ ~IsIsoTime(Tail(rest))
             time == IF rest = <<>> THEN <<>>
                     ELSE IF aware THEN SubSeq(rest, 2, Len(rest) - 6)
                     ELSE Tail(rest)
         IN  [ok |-> TRUE,
              year |-> DigitsValue(SubSeq(s, 1, 4)),
              month |-> DigitsValue(SubSeq(s, 6, 7)),
              day |-> DigitsValue(SubSeq(s, 9, 10)),
              hour |-> IF time = <<>> THEN 0 ELSE DigitsValue(SubSeq(time, 1, 2)),
              minute |-> IF time = <<>> THEN 0 ELSE DigitsValue(SubSeq(time, 4, 5)),
              second |-> IF time = <<>> THEN 0 ELSE DigitsValue(SubSeq(time, 7, 8)),
              microsecond |-> IF Len(time) = 12
                              THEN 1000 * DigitsValue(SubSeq(time, 10, 12)) ELSE 0,
              tzinfo |-> IF aware THEN SubSeq(rest, Len(rest) - 5, Len(rest)) ELSE NoneVal]
    ELSE NoDate

\* int(str): an optional sign and one or more digits, or a ValueError
IntOf(s) ==
    IF s # <<>> /\ AllDigits(s) THEN [ok |-> TRUE, val |-> DigitsValue(s)]
    ELSE IF Len(s) >= 2 /\ s[1] \in {"+", "-"} /\ AllDigits(Tail(s))
    THEN [ok |-> TRUE, val |-> IF s[1] = "-" THEN 0 - DigitsValue(Tail(s)) ELSE DigitsValue(Tail(s))]
    ELSE [ok |-> FALSE, val |-> 0]

\* The digits of an unsigned decimal literal "ddd" or "ddd.fff" with at most
\* CostDigits fractional digits, as a count of units of 10^-CostDigits.
UnsignedDecimalOf(s) ==
    IF "." \in Range(s)
    THEN LET dot == IndexOf(s, ".")
             whole == SubSeq(s, 1, dot - 1)
             frac == SubSeq(s, dot + 1, Len(s))
         IN  IF /\ AllDigits(whole) /\ AllDigits(frac)
                /\ Len(whole) + Len(frac) >= 1
                /\ Len(frac) <= CostDigits
             THEN [ok |-> TRUE,
                   val |-> DigitsValue(whole) * Pow10(CostDigits)
                           + DigitsValue(frac) * Pow10(CostDigits - Len(frac))]
             ELSE [ok |-> FALSE, val |-> 0]
    ELSE IF s # <<>> /\ AllDigits(s)
         THEN [ok |-> TRUE, val |-> DigitsValue(s) * Pow10(CostDigits)]
         ELSE [ok |-> FALSE, val |-> 0]

\* Decimal(str), or a decimal.InvalidOperation
DecimalOf(s) ==
    IF s # <<>> /\ s[1] \in {"+", "-"}
    THEN LET u == UnsignedDecimalOf(Tail(s))
         IN  [ok |-> u.ok, val |-> IF s[1] = "-" THEN 0 - u.val ELSE u.val]
    ELSE UnsignedDecimalOf(s)

\* The column names of the export, in file order.
Columns ==
    <<"Date", "User", "Kind", "Model", "Max Mode", "Input (w/ Cache Write)",
      "Input (w/o Cache Write)", "Cache Read", "Output Tokens", "Total Tokens", "Cost">>

\* csv.DictReader: one row as a mapping from the header's names to the row's
\* fields; a name whose field the row lacks maps to None (restval).
DictReader(hdr, fields) ==
    [c \in Range(hdr) |->
        IF IndexOf(hdr, c) <= Len(fields) THEN fields[IndexOf(hdr, c)] ELSE NoneVal]

\* The keyword arguments of the UsageEvent(...) call in _parse_row, in the
\* order Python evaluates them, each with the conversion applied to row[col].
ArgSteps ==
    <<[col |-> "Date", conv |-> "date"],
      [col |-> "User", conv |-> "str"],
      [col |-> "Kind", conv |-> "str"],
      [col |-> "Model", conv |-> "str"],
      [col |-> "Max Mode", conv |-> "bool"],
      [col |-> "Input (w/ Cache Write)", conv |-> "int"],
      [col |-> "Input (w/o Cache Write)", conv |-> "int"],
      [col |-> "Cache Read", conv |-> "int"],
      [col |-> "Output Tokens", conv |-> "int"],
      [col |-> "Total Tokens", conv |-> "int"],
      [col |-> "Cost", conv |-> "decimal"]>>

\* The exception evaluating one argument raises, or "none".
ArgError(row, step) ==
    IF step.col \notin DOMAIN row THEN "KeyError"
    ELSE LET v == row[step.col]
         IN  CASE step.conv = "date" ->
                    IF v = NoneVal THEN "AttributeError"
                    ELSE IF FromIsoFormat(DateStr(v)).ok THEN "none" ELSE "ValueError"
               [] step.conv = "str" -> "none"
               [] step.conv = "bool" -> IF v = NoneVal THEN "AttributeError" ELSE "none"
               [] step.conv = "int" ->
                    IF v = NoneVal THEN "TypeError"
                    ELSE IF IntOf(v).ok THEN "none" ELSE "ValueError"
               [] step.conv = "decimal" ->
                    IF v = NoneVal THEN "TypeError"
                    ELSE IF DecimalOf(v).ok THEN "none" ELSE "InvalidOperation"

\* The first exception raised while the arguments are evaluated, or "none".
RECURSIVE FirstArgError(_, _)
FirstArgError(row, i) ==
    IF i > Len(ArgSteps) THEN "none"
    ELSE LET err == ArgError(row, ArgSteps[i])
         IN  IF err # "none" THEN err ELSE FirstArgError(row, i + 1)

\* The model's field constraints (models.py): str fields are strings, the five
\* counters and the cost are >= 0.  A violation is pydantic's ValidationError,
\* a ValueError.
Validates(row) ==
    /\ \A c \in {"User", "Kind", "Model"} : row[c] # NoneVal
    /\ \A c \in {"Input (w/ Cache Write)", "Input (w/o Cache Write)", "Cache Read",
                 "Output Tokens", "Total Tokens"} : IntOf(row[c]).val >= 0
    /\ DecimalOf(row["Cost"]).val >= 0

\* The exception _parse_row(row) raises, or "none" when it returns an event.
RowError(row) ==
    LET err == FirstArgError(row, 1)
    IN  IF err # "none" THEN err
        ELSE IF Validates(row) THEN "none" ELSE "ValueError"

\* The UsageEvent _parse_row(row) returns when it raises nothing.
ParseRow(row) ==
    LET d == FromIsoFormat(DateStr(row["Date"]))
    IN  [date |-> [year |-> d.year, month |-> d.month, day |-> d.day,
                   hour |-> d.hour, minute |-> d.minute, second |-> d.second,
                   microsecond |-> d.microsecond, tzinfo |-> d.tzinfo],
         user |-> row["User"],
         kind |-> row["Kind"],
         model |-> row["Model"],
         max_mode |-> (Lower(row["Max Mode"]) = <<"y","e","s">>),
         cache_write |-> IntOf(row["Input (w/ Cache Write)"]).val,
         input_no_cache |-> IntOf(row["Input (w/o Cache Write)"]).val,
         cache_read |-> IntOf(row["Cache Read"]).val,
         output_tokens |-> IntOf(row["Output Tokens"]).val,
         total_tokens |-> IntOf(row["Total Tokens"]).val,
         cost |-> DecimalOf(row["Cost"]).val]

\* The exceptions parse_csv_stream catches: the row is skipped with a warning.
Caught == {"ValueError", "KeyError"}

(* ------------------------------ models.py ------------------------------ *)

\* UsageEvent.month_key: strftime("%Y-%m"), for the four-digit years of the model
MonthKey(event) == ZeroPad(event.date.year, 4) \o <<"-">> \o ZeroPad(event.date.month, 2)

\* The opus rule is tried before the haiku rule: the variant of
\* NormalizedModel with the first two rules exchanged.
NormalizedModelOpusFirst(event) ==
    LET model_lower == Lower(event.model)
    IN  IF Contains(model_lower, <<"o","p","u","s">>) THEN <<"o","p","u","s","-","4","-","5">>
        ELSE IF Contains(model_lower, <<"h","a","i","k","u">>) THEN <<"h","a","i","k","u","-","4","-","5">>
        ELSE IF Contains(model_lower, <<"s","o","n","n","e","t">>) THEN <<"s","o","n","n","e","t","-","4","-","5">>
        ELSE IF model_lower = <<"g","p","t","-","5",".","2">> THEN <<"g","p","t","-","5","-","2">>
        ELSE event.model

\* The rules are matched against the name as written: the variant of
\* NormalizedModel without lower().
NormalizedModelCaseSensitive(event) ==
    LET model_lower == event.model
    IN  IF Contains(model_lower, <<"h","a","i","k","u">>) THEN <<"h","a","i","k","u","-","4","-","5">>
        ELSE IF Contains(model_lower, <<"o","p","u","s">>) THEN <<"o","p","u","s","-","4","-","5">>
        ELSE IF Contains(model_lower, <<"s","o","n","n","e","t">>) THEN <<"s","o","n","n","e","t","-","4","-","5">>
        ELSE IF model_lower = <<"g","p","t","-","5",".","2">> THEN <<"g","p","t","-","5","-","2">>
        ELSE event.model

\* UsageEvent.normalized_model
NormalizedModel(event) ==
    LET model_lower == Lower(event.model)
    IN  IF Contains(model_lower, <<"h","a","i","k","u">>) THEN <<"h","a","i","k","u","-","4","-","5">>
        ELSE IF Contains(model_lower, <<"o","p","u","s">>) THEN <<"o","p","u","s","-","4","-","5">>
        ELSE IF Contains(model_lower, <<"s","o","n","n","e","t">>) THEN <<"s","o","n","n","e","t","-","4","-","5">>
        ELSE IF model_lower = <<"g","p","t","-","5",".","2">> THEN <<"g","p","t","-","5","-","2">>
        ELSE event.model

\* ModelStats() / UserStats(): six accumulators, all zero.
ZeroStats ==
    [input_tokens |-> 0, output_tokens |-> 0, cache_create |-> 0,
     cache_read |-> 0, total_tokens |-> 0, cost |-> 0]

\* A dict is a sequence of entries [k, v] in insertion order.
DictKeys(d) == {d[i].k : i \in 1..Len(d)}

DictGet(d, key) == d[CHOOSE i \in 1..Len(d) : d[i].k = key].v

\* d[key] = val
DictSet(d, key, val) ==
    IF key \in DictKeys(d)
    THEN [i \in 1..Len(d) |-> IF d[i].k = key THEN [k |-> key, v |-> val] ELSE d[i]]
    ELSE Append(d, [k |-> key, v |-> val])

\* A bucket made without its label.
NewStatsUnlabelled(label) ==
    [month |-> <<>>, models |-> {}, user_stats |-> <<>>, model_stats |-> <<>>,
     input_tokens |-> 0, output_tokens |-> 0, cache_create |-> 0,
     cache_read |-> 0, total_tokens |-> 0, cost |-> 0]

\* AggregatedStats(month=label)
NewStats(label) ==
    [month |-> label, models |-> {}, user_stats |-> <<>>, model_stats |-> <<>>,
     input_tokens |-> 0, output_tokens |-> 0, cache_create |-> 0,
     cache_read |-> 0, total_tokens |-> 0, cost |-> 0]

\* The six fields of add() with the cost assigned, not added: the variant of
\* AddEvent whose cost is that of the last event.
AddEventLastCost(stat, event) ==
    [stat EXCEPT !.input_tokens = @ + event.input_no_cache,
                 !.output_tokens = @ + event.output_tokens,
                 !.cache_create = @ + event.cache_write,
                 !.cache_read = @ + event.cache_read,
                 !.total_tokens = @ + event.total_tokens,
                 !.cost = event.cost]

\* The six "+=" of add() on one stats object.
AddEvent(stat, event) ==
    [stat EXCEPT !.input_tokens = @ + event.input_no_cache,
                 !.output_tokens = @ + event.output_tokens,
                 !.cache_create = @ + event.cache_write,
                 !.cache_read = @ + event.cache_read,
                 !.total_tokens = @ + event.total_tokens,
                 !.cost = @ + event.cost]

\* The six "+=" of merge() on one stats object.
AddStats(stat, other) ==
    [stat EXCEPT !.input_tokens = @ + other.input_tokens,
                 !.output_tokens = @ + other.output_tokens,
                 !.cache_create = @ + other.cache_create,
                 !.cache_read = @ + other.cache_read,
                 !.total_tokens = @ + other.total_tokens,
                 !.cost = @ + other.cost]

\* d.get(key), a fresh zero entry when the key is new
StatOrZero(d, key) == IF key \in DictKeys(d) THEN DictGet(d, key) ELSE ZeroStats

\* AggregatedStats.add(event)
Add(self, event) ==
    LET model_name == NormalizedModel(event)
        withModel == [self EXCEPT
            !.models = @ \cup {model_name},
            !.model_stats = DictSet(@, model_name, AddEvent(StatOrZero(@, model_name), event))]
        withUser == [withModel EXCEPT
            !.user_stats = DictSet(@, event.user, AddEvent(StatOrZero(@, event.user), event))]
    IN  AddEvent(withUser, event)

\* A merge loop that assigns other's entry where it should add to the own one.
RECURSIVE MergeUsersOverwrite(_, _, _)
MergeUsersOverwrite(mine, theirs, i) ==
    IF i > Len(theirs) THEN mine
    ELSE MergeUsersOverwrite(DictSet(mine, theirs[i].k, theirs[i].v), theirs, i + 1)

\* The per-user loop of merge(): other's entries, in other's order.
RECURSIVE MergeUsers(_, _, _)
MergeUsers(mine, theirs, i) ==
    IF i > Len(theirs) THEN mine
    ELSE MergeUsers(DictSet(mine, theirs[i].k,
                            AddStats(StatOrZero(mine, theirs[i].k), theirs[i].v)),
                    theirs, i + 1)

\* A merge that leaves out "self.models.update(other.models)".
MergeKeepModels(self, other) ==
    AddStats([self EXCEPT !.user_stats = MergeUsers(@, other.user_stats, 1)], other)

\* A merge that leaves out "self.cost += other.cost".
MergeWithoutCost(self, other) ==
    [self EXCEPT !.models = @ \cup other.models,
                 !.user_stats = MergeUsers(@, other.user_stats, 1),
                 !.input_tokens = @ + other.input_tokens,
                 !.output_tokens = @ + other.output_tokens,
                 !.cache_create = @ + other.cache_create,
                 !.cache_read = @ + other.cache_read,
                 !.total_tokens = @ + other.total_tokens]

\* AggregatedStats.merge(other)
Merge(self, other) ==
    AddStats([self EXCEPT !.models = @ \cup other.models,
                          !.user_stats = MergeUsers(@, other.user_stats, 1)],
             other)

(* ---------------------------- aggregator.py ---------------------------- *)

\* A loop turn that starts a fresh bucket for every event of a month.
GroupEventReplace(by_month, event) ==
    DictSet(by_month, MonthKey(event), Add(NewStats(MonthKey(event)), event))

\* One turn of the loop of aggregate_by_month: by_month[month_key] is created
\* with an empty label on first use, labelled, and the event added to it.
GroupEvent(by_month, event) ==
    LET month_key == MonthKey(event)
        found == IF month_key \in DictKeys(by_month) THEN DictGet(by_month, month_key)
                 ELSE NewStats(<<>>)
        labelled == IF found.month = <<>> THEN [found EXCEPT !.month = month_key] ELSE found
    IN  DictSet(by_month, month_key, Add(labelled, event))

RECURSIVE GroupByMonth(_, _, _)
GroupByMonth(by_month, evs, i) ==
    IF i > Len(evs) THEN by_month
    ELSE GroupByMonth(GroupEvent(by_month, evs[i]), evs, i + 1)

\* by_month.values()
DictValues(d) == [i \in 1..Len(d) |-> d[i].v]

\* One bucket put into an ascending list, after the buckets not greater than it.
RECURSIVE InsertByMonth(_, _)
InsertByMonth(sorted, s) ==
    IF sorted = <<>> THEN <<s>>
    ELSE IF StrLess(s.month, sorted[1].month) THEN <<s>> \o sorted
    ELSE <<sorted[1]>> \o InsertByMonth(Tail(sorted), s)

\* The buckets in the order the dict holds them, unsorted.
InsertionOrder(values) == values

\* sorted(values, key=lambda s: s.month): stable, ascending
RECURSIVE SortedByMonth(_)
SortedByMonth(values) ==
    IF values = <<>> THEN <<>>
    ELSE InsertByMonth(SortedByMonth(SubSeq(values, 1, Len(values) - 1)), values[Len(values)])

\* aggregate_by_month(events)
AggregateByMonth(evs) == SortedByMonth(DictValues(GroupByMonth(<<>>, evs, 1)))

\* The loop of compute_grand_total ended after its first turn.
MergeFirstOnly(acc, stats, i) ==
    IF stats = <<>> THEN acc ELSE Merge(acc, stats[1])

RECURSIVE MergeAll(_, _, _)
MergeAll(acc, stats, i) ==
    IF i > Len(stats) THEN acc ELSE MergeAll(Merge(acc, stats[i]), stats, i + 1)

\* compute_grand_total(monthly_stats)
ComputeGrandTotal(stats) == MergeAll(NewStats(<<"T","o","t","a","l">>), stats, 1)

(* ------------------- compute_grand_total on objects -------------------- *)

\* The UserStats objects live in a heap, a sequence indexed by address; the
\* user_stats dict of a stored bucket maps a user to the address of its
\* UserStats object.  What merge() never touches is kept by value.

\* The entries of a user_stats dict put into the heap, one object each.
StoreUsers(heap, d) ==
    [heap |-> heap \o DictValues(d),
     refs |-> [n \in 1..Len(d) |-> [k |-> d[n].k, v |-> Len(heap) + n]]]

\* The buckets from the i-th on put into the heap.
RECURSIVE StoreBuckets(_, _, _)
StoreBuckets(heap, stats, i) ==
    IF i > Len(stats) THEN [heap |-> heap, buckets |-> <<>>]
    ELSE LET stored == StoreUsers(heap, stats[i].user_stats)
             rest == StoreBuckets(stored.heap, stats, i + 1)
         IN  [heap |-> rest.heap,
              buckets |-> <<[stats[i] EXCEPT !.user_stats = stored.refs]>> \o rest.buckets]

\* A stored bucket read back from the heap.
Load(heap, bucket) ==
    [bucket EXCEPT !.user_stats = [n \in 1..Len(@) |-> [k |-> @[n].k, v |-> heap[@[n].v]]]]

\* The loop of merge() where a user new to the receiver gets the other
\* bucket's UserStats object itself: self.user_stats[user] = stats.
RECURSIVE MergeUsersShared(_, _, _, _)
MergeUsersShared(heap, mine, theirs, i) ==
    IF i > Len(theirs) THEN [heap |-> heap, refs |-> mine]
    ELSE LET user == theirs[i].k
             fresh == user \notin DictKeys(mine)
             refs == IF fresh THEN Append(mine, [k |-> user, v |-> theirs[i].v]) ELSE mine
             at == DictGet(refs, user)
         IN  MergeUsersShared([heap EXCEPT ![at] = AddStats(@, heap[theirs[i].v])],
                              refs, theirs, i + 1)

\* The loop of merge() over other.user_stats.items(), from the i-th entry on:
\* a user new to the receiver gets a new UserStats() object, and the six
\* fields of the other bucket's object are added to the receiver's object.
RECURSIVE MergeUsersAt(_, _, _, _)
MergeUsersAt(heap, mine, theirs, i) ==
    IF i > Len(theirs) THEN [heap |-> heap, refs |-> mine]
    ELSE LET user == theirs[i].k
             fresh == user \notin DictKeys(mine)
             heap1 == IF fresh THEN Append(heap, ZeroStats) ELSE heap
             refs == IF fresh THEN Append(mine, [k |-> user, v |-> Len(heap1)]) ELSE mine
             at == DictGet(refs, user)
         IN  MergeUsersAt([heap1 EXCEPT ![at] = AddStats(@, heap1[theirs[i].v])],
                          refs, theirs, i + 1)

\* self.merge(other) on stored buckets
MergeAt(heap, self, other) ==
    LET merged == MergeUsersAt(heap, self.user_stats, other.user_stats, 1)
    IN  [heap |-> merged.heap,
         self |-> AddStats([self EXCEPT !.models = @ \cup other.models,
                                        !.user_stats = merged.refs],
                           other)]

RECURSIVE MergeAllAt(_, _, _, _)
MergeAllAt(heap, acc, buckets, i) ==
    IF i > Len(buckets) THEN [heap |-> heap, total |-> acc]
    ELSE LET step == MergeAt(heap, acc, buckets[i])
         IN  MergeAllAt(step.heap, step.self, buckets, i + 1)

\* compute_grand_total(monthly_stats) on stored buckets
ComputeGrandTotalAt(heap, buckets) ==
    MergeAllAt(heap, NewStats(<<"T","o","t","a","l">>), buckets, 1)

(* ----------------------------- formatter.py ---------------------------- *)

\* str(n) of a natural number
RECURSIVE IntText(_)
IntText(n) ==
    IF n < 10 THEN <<Digits[n + 1]>>
    ELSE Append(IntText(n \div 10), Digits[(n % 10) + 1])

\* The "," option of the format mini-language: a comma before every group
\* of three digits, counted from the right.
RECURSIVE GroupThousands(_)
GroupThousands(digits) ==
    IF Len(digits) <= 3 THEN digits
    ELSE GroupThousands(SubSeq(digits, 1, Len(digits) - 3))
         \o <<",">> \o SubSeq(digits, Len(digits) - 2, Len(digits))

\* format_number(value) = f"{value:,}"
FormatNumber(value) == GroupThousands(IntText(value))

\* The "f" presentation of a Decimal rounds half-up: the variant of
\* RoundToCents in which a tie always goes up.
RoundToCentsHalfUp(value) ==
    LET unit == Pow10(CostDigits - 2)
    IN  IF 2 * (value % unit) >= unit THEN (value \div unit) + 1 ELSE value \div unit

\* The ".2f" presentation of a Decimal: the value in hundredths, rounded as
\* the decimal context rounds (ROUND_HALF_EVEN): to the nearest hundredth, a
\* tie to the even one.
RoundToCents(value) ==
    LET unit == Pow10(CostDigits - 2)
        q == value \div unit
        r == value % unit
    IN  IF 2 * r > unit \/ (2 * r = unit /\ q % 2 = 1) THEN q + 1 ELSE q

\* format_currency(value) = f"${value:,.2f}"
FormatCurrency(value) ==
    LET cents == RoundToCents(value)
    IN  <<"$">> \o GroupThousands(IntText(cents \div 100)) \o <<".">> \o ZeroPad(cents % 100, 2)

(* ----------------------------- renderer.py ----------------------------- *)

\* The box-drawing characters, each one character of the output.
BOX_TL == "BOX_TL"

BOX_TR == "BOX_TR"

BOX_BL == "BOX_BL"

BOX_BR == "BOX_BR"

BOX_H == "BOX_H"

BOX_V == "BOX_V"

BOX_LJ == "BOX_LJ"

BOX_RJ == "BOX_RJ"

BOX_TJ == "BOX_TJ"

BOX_BJ == "BOX_BJ"

BOX_X == "BOX_X"

\* Column definitions: (name, width, is_numeric)
COLUMNS_NO_BREAKDOWN ==
    <<
      [name |-> <<"M","o","n","t","h">>,
       width |-> 10, is_numeric |-> FALSE],
      [name |-> <<"M","o","d","e","l","s">>,
       width |-> 35, is_numeric |-> FALSE],
      [name |-> <<"I","n","p","u","t">>,
       width |-> 12, is_numeric |-> TRUE],
      [name |-> <<"O","u","t","p","u","t">>,
       width |-> 11, is_numeric |-> TRUE],
      [name |-> <<"C","a","c","h","e"," ","C","r","e","a","t","e">>,
       width |-> 15, is_numeric |-> TRUE],
      [name |-> <<"C","a","c","h","e"," ","R","e","a","d">>,
       width |-> 14, is_numeric |-> TRUE],
      [name |-> <<"T","o","t","a","l"," ","T","o","k","e","n","s">>,
       width |-> 15, is_numeric |-> TRUE],
      [name |-> <<"C","o","s","t"," ","(","U","S","D",")">>,
       width |-> 13, is_numeric |-> TRUE]
    >>

COLUMNS_WITH_BREAKDOWN ==
    <<
      [name |-> <<"M","o","n","t","h">>,
       width |-> 24, is_numeric |-> FALSE],
      [name |-> <<"M","o","d","e","l","s">>,
       width |-> 35, is_numeric |-> FALSE],
      [name |-> <<"I","n","p","u","t">>,
       width |-> 12, is_numeric |-> TRUE],
      [name |-> <<"O","u","t","p","u","t">>,
       width |-> 11, is_numeric |-> TRUE],
      [name |-> <<"C","a","c","h","e"," ","C","r","e","a","t","e">>,
       width |-> 15, is_numeric |-> TRUE],
      [name |-> <<"C","a","c","h","e"," ","R","e","a","d">>,
       width |-> 14, is_numeric |-> TRUE],
      [name |-> <<"T","o","t","a","l"," ","T","o","k","e","n","s">>,
       width |-> 15, is_numeric |-> TRUE],
      [name |-> <<"C","o","s","t"," ","(","U","S","D",")">>,
       width |-> 13, is_numeric |-> TRUE]
    >>

COLUMNS_GROUP_BY_USER ==
    <<
      [name |-> <<"M","o","n","t","h">>,
       width |-> 33, is_numeric |-> FALSE],
      [name |-> <<"I","n","p","u","t">>,
       width |-> 12, is_numeric |-> TRUE],
      [name |-> <<"O","u","t","p","u","t">>,
       width |-> 11, is_numeric |-> TRUE],
      [name |-> <<"C","a","c","h","e"," ","C","r","e","a","t","e">>,
       width |-> 15, is_numeric |-> TRUE],
      [name |-> <<"C","a","c","h","e"," ","R","e","a","d">>,
       width |-> 14, is_numeric |-> TRUE],
      [name |-> <<"T","o","t","a","l"," ","T","o","k","e","n","s">>,
       width |-> 15, is_numeric |-> TRUE],
      [name |-> <<"C","o","s","t"," ","(","U","S","D",")">>,
       width |-> 13, is_numeric |-> TRUE]
    >>

\* _get_columns(show_models, group_by_user)
GetColumns(show_models, group_by_user) ==
    IF group_by_user THEN COLUMNS_GROUP_BY_USER
    ELSE IF show_models THEN COLUMNS_WITH_BREAKDOWN
    ELSE COLUMNS_NO_BREAKDOWN

\* hashlib.sha256(email.encode()).hexdigest()[:8], tabulated for the user
\* identifiers of the model.
Sha256Hex8 ==
    <<[k |-> <<"a","l","i","c","e","@","x",".","i","o">>,
       v |-> <<"1","6","3","d","3","7","4","8">>],
      [k |-> <<"b","o","b","@","x",".","i","o">>,
       v |-> <<"c","b","6","a","7","c","1","e">>]>>

\* _anonymize_email(email)
AnonymizeEmail(email) ==
    <<"U","s","e","r","-">> \o (CHOOSE e \in Range(Sha256Hex8) : e.k = email).v

\* c * n
Repeat(c, n) == [i \in 1..n |-> c]

\* sep.join(parts)
RECURSIVE Join(_, _)
Join(parts, sep) ==
    IF parts = <<>> THEN <<>>
    ELSE IF Len(parts) = 1 THEN parts[1]
    ELSE parts[1] \o <<sep>> \o Join(Tail(parts), sep)

\* f"{value:>{width}}": padded on the left up to width, never cut
AlignRight(value, width) ==
    IF Len(value) >= width THEN value ELSE Repeat(" ", width - Len(value)) \o value

\* f"{value:<{width}}": padded on the right up to width, never cut
AlignLeft(value, width) ==
    IF Len(value) >= width THEN value ELSE value \o Repeat(" ", width - Len(value))

\* _render_border(position, columns)
RenderBorder(position, columns) ==
    LET segments == [i \in 1..Len(columns) |-> Repeat(BOX_H, columns[i].width)]
    IN  IF position = "top"
        THEN <<BOX_TL>> \o Join(segments, BOX_TJ) \o <<BOX_TR>>
        ELSE <<BOX_BL>> \o Join(segments, BOX_BJ) \o <<BOX_BR>>

\* _render_separator(columns)
RenderSeparator(columns) ==
    LET segments == [i \in 1..Len(columns) |-> Repeat(BOX_H, columns[i].width)]
    IN  <<BOX_LJ>> \o Join(segments, BOX_X) \o <<BOX_RJ>>

\* _render_header(columns)
RenderHeader(columns) ==
    LET cells == [i \in 1..Len(columns) |->
                     <<" ">>
                     \o (IF columns[i].is_numeric
                         THEN AlignRight(columns[i].name, columns[i].width - 2)
                         ELSE AlignLeft(columns[i].name, columns[i].width - 2))
                     \o <<" ">>]
    IN  <<BOX_V>> \o Join(cells, BOX_V) \o <<BOX_V>>

\* _format_row(values, columns): a numeric cell that is not empty is aligned
\* right, every other cell left.
FormatRow(values, columns) ==
    LET cells == [i \in 1..Len(columns) |->
                     <<" ">>
                     \o (IF columns[i].is_numeric /\ values[i] # <<>>
                         THEN AlignRight(values[i], columns[i].width - 2)
                         ELSE AlignLeft(values[i], columns[i].width - 2))
                     \o <<" ">>]
    IN  <<BOX_V>> \o Join(cells, BOX_V) \o <<BOX_V>>

\* The six number cells of a row, for a bucket or a per-model / per-user entry.
NumberCells(st) ==
    <<FormatNumber(st.input_tokens), FormatNumber(st.output_tokens),
      FormatNumber(st.cache_create), FormatNumber(st.cache_read),
      FormatNumber(st.total_tokens), FormatCurrency(st.cost)>>

\* A set of strings as a descending list: the variant of SortedStrings with
\* the order reversed.
RECURSIVE SortedStringsDescending(_)
SortedStringsDescending(S) ==
    IF S = {} THEN <<>>
    ELSE LET most == CHOOSE x \in S : \A y \in S \ {x} : StrLess(y, x)
         IN  <<most>> \o SortedStringsDescending(S \ {most})

\* A set of strings as an ascending list: sorted(set)
RECURSIVE SortedStrings(_)
SortedStrings(S) ==
    IF S = {} THEN <<>>
    ELSE LET least == CHOOSE x \in S : \A y \in S \ {x} : StrLess(x, y)
         IN  <<least>> \o SortedStrings(S \ {least})

\* One entry put into a list ordered by cost ascending: the variant of
\* InsertByCost with the comparison reversed.
RECURSIVE InsertByCostAscending(_, _)
InsertByCostAscending(sorted, e) ==
    IF sorted = <<>> THEN <<e>>
    ELSE IF e.v.cost < sorted[1].v.cost THEN <<e>> \o sorted
    ELSE <<sorted[1]>> \o InsertByCostAscending(Tail(sorted), e)

\* One entry put into a list ordered by cost descending, before its equals:
\* the variant of InsertByCost that is not stable.
RECURSIVE InsertByCostBeforeEquals(_, _)
InsertByCostBeforeEquals(sorted, e) ==
    IF sorted = <<>> THEN <<e>>
    ELSE IF e.v.cost >= sorted[1].v.cost THEN <<e>> \o sorted
    ELSE <<sorted[1]>> \o InsertByCostBeforeEquals(Tail(sorted), e)

\* One entry put into a list ordered by cost descending, after its equals.
RECURSIVE InsertByCost(_, _)
InsertByCost(sorted, e) ==
    IF sorted = <<>> THEN <<e>>
    ELSE IF e.v.cost > sorted[1].v.cost THEN <<e>> \o sorted
    ELSE <<sorted[1]>> \o InsertByCost(Tail(sorted), e)

\* The breakdown rows follow the order of the map: the variant of SortedByCost
\* without the sort.
UnsortedByCost(d) == d

\* sorted(d.keys(), key=lambda k: d[k].cost, reverse=True), with the entries
RECURSIVE SortedByCost(_)
SortedByCost(d) ==
    IF d = <<>> THEN <<>>
    ELSE InsertByCost(SortedByCost(SubSeq(d, 1, Len(d) - 1)), d[Len(d)])

\* The tree-branch prefix of a breakdown row: f"  └─ {name}"
Branch == <<" ", " ", BOX_BL, BOX_H, " ">>

\* _render_data_row(stats, columns): the month's totals with the first model,
\* then one line for each further model, in alphabetical order.
RenderDataRow(stats, columns) ==
    LET sorted_models == SortedStrings(stats.models)
        first_model == IF sorted_models = <<>> THEN <<>> ELSE <<"-", " ">> \o sorted_models[1]
    IN  <<FormatRow(<<stats.month, first_model>> \o NumberCells(stats), columns)>>
        \o [i \in 1..(Len(sorted_models) - 1) |->
               FormatRow([c \in 1..Len(columns) |->
                             IF c = 2 THEN <<"-", " ">> \o sorted_models[i + 1] ELSE <<>>],
                         columns)]

\* _render_model_breakdown_rows(stats, columns), from the i-th entry in cost
\* order on: a separator and a row for each model.
RECURSIVE RenderModelBreakdownRows(_, _, _)
RenderModelBreakdownRows(sorted_models, columns, i) ==
    IF i > Len(sorted_models) THEN <<>>
    ELSE <<RenderSeparator(columns),
           FormatRow(<<Branch \o sorted_models[i].k, <<>>>> \o NumberCells(sorted_models[i].v),
                     columns)>>
         \o RenderModelBreakdownRows(sorted_models, columns, i + 1)

\* _render_data_row_grouped(stats, columns)
RenderDataRowGrouped(stats, columns) ==
    <<FormatRow(<<stats.month>> \o NumberCells(stats), columns)>>

\* The user rows show the identifier whatever anonymize is: the variant of
\* DisplayName that ignores the option.
DisplayNamePlain(user, anonymize) == user

\* display_name = _anonymize_email(user) if anonymize else user
DisplayName(user, anonymize) == IF anonymize THEN AnonymizeEmail(user) ELSE user

\* _render_user_breakdown_rows(stats, columns, anonymize), from the i-th entry
\* in cost order on: a separator and a row for each user.
RECURSIVE RenderUserBreakdownRows(_, _, _, _)
RenderUserBreakdownRows(sorted_users, columns, anonymize, i) ==
    IF i > Len(sorted_users) THEN <<>>
    ELSE <<RenderSeparator(columns),
           FormatRow(<<Branch \o DisplayName(sorted_users[i].k, anonymize)>>
                     \o NumberCells(sorted_users[i].v),
                     columns)>>
         \o RenderUserBreakdownRows(sorted_users, columns, anonymize, i + 1)

\* _render_total_row(total, columns, group_by_user)
RenderTotalRow(tot, columns, group_by_user) ==
    IF group_by_user
    THEN FormatRow(<<<<"T","o","t","a","l">>>> \o NumberCells(tot), columns)
    ELSE FormatRow(<<<<"T","o","t","a","l">>, <<>>>> \o NumberCells(tot), columns)

\* The loop of render_table with the two tests exchanged: show_models is
\* looked at before group_by_user.
RECURSIVE RenderMonthsModelsFirst(_, _, _, _, _, _)
RenderMonthsModelsFirst(stats, columns, i, show_models, group_by_user, anonymize) ==
    IF i > Len(stats) THEN <<>>
    ELSE LET block ==
                 IF show_models
                 THEN RenderDataRow(stats[i], columns)
                      \o RenderModelBreakdownRows(SortedByCost(stats[i].model_stats), columns, 1)
                 ELSE IF group_by_user
                 THEN RenderDataRowGrouped(stats[i], columns)
                      \o RenderUserBreakdownRows(SortedByCost(stats[i].user_stats),
                                                 columns, anonymize, 1)
                 ELSE RenderDataRow(stats[i], columns)
         IN  <<RenderSeparator(columns)>> \o block
             \o RenderMonthsModelsFirst(stats, columns, i + 1, show_models, group_by_user,
                                        anonymize)

\* The loop of render_table over monthly_stats, from the i-th bucket on.
RECURSIVE RenderMonths(_, _, _, _, _, _)
RenderMonths(stats, columns, i, show_models, group_by_user, anonymize) ==
    IF i > Len(stats) THEN <<>>
    ELSE LET block ==
                 IF group_by_user
                 THEN RenderDataRowGrouped(stats[i], columns)
                      \o RenderUserBreakdownRows(SortedByCost(stats[i].user_stats),
                                                 columns, anonymize, 1)
                 ELSE RenderDataRow(stats[i], columns)
                      \o (IF show_models
                          THEN RenderModelBreakdownRows(SortedByCost(stats[i].model_stats),
                                                        columns, 1)
                          ELSE <<>>)
         IN  <<RenderSeparator(columns)>> \o block
             \o RenderMonths(stats, columns, i + 1, show_models, group_by_user, anonymize)

\* The Total row is left out: the variant of RenderTable without it.
RenderTableNoTotal(stats, tot, show_models, group_by_user, anonymize) ==
    LET columns == GetColumns(show_models, group_by_user)
    IN  <<RenderBorder("top", columns), RenderHeader(columns)>>
        \o RenderMonths(stats, columns, 1, show_models, group_by_user, anonymize)
        \o <<RenderSeparator(columns), RenderBorder("bottom", columns)>>

\* render_table(monthly_stats, total, show_models=..., group_by_user=...,
\* anonymize=...): the lines that "\n".join(lines) joins.
RenderTable(stats, tot, show_models, group_by_user, anonymize) ==
    LET columns == GetColumns(show_models, group_by_user)
    IN  <<RenderBorder("top", columns), RenderHeader(columns)>>
        \o RenderMonths(stats, columns, 1, show_models, group_by_user, anonymize)
        \o <<RenderSeparator(columns), RenderTotalRow(tot, columns, group_by_user),
             RenderBorder("bottom", columns)>>

(* ------------------------------- inputs -------------------------------- *)

\* Field texts of the rows of the model.
DateJanZ == <<"2","0","2","6","-","0","1","-","1","5","T","1","0",":","3","0",":","0","0",".","0","0","0","Z">>

DateFebOffset == <<"2","0","2","6","-","0","2","-","0","5","T","0","8",":","0","0",":","0","0","+","0","2",":","0","0">>

DateDec == <<"2","0","2","5","-","1","2","-","3","1","T","2","3",":","0","0",":","0","0">>

UserAlice == <<"a","l","i","c","e","@","x",".","i","o">>

UserBob == <<"b","o","b","@","x",".","i","o">>

ModelSonnet == <<"c","l","a","u","d","e","-","4",".","5","-","s","o","n","n","e","t">>

ModelHaiku == <<"C","l","a","u","d","e","-","4",".","5","-","H","a","i","k","u">>

ModelGpt == <<"g","p","t","-","5",".","2">>

\* A full row: Kind "Included", Max Mode "No", and four counters 1, 2, 3, 4
\* beside the given fields.
FullRow(date, user, model, total_tokens, cost) ==
    <<date, user, <<"I","n","c","l","u","d","e","d">>, model, <<"N","o">>,
      <<"1">>, <<"2">>, <<"3">>, <<"4">>, total_tokens, cost>>

\* Rows _parse_row accepts.
GoodRows ==
    {FullRow(DateJanZ, UserAlice, ModelSonnet, <<"1","0">>, <<"0",".","0","5">>),
     FullRow(DateJanZ, UserBob, ModelHaiku, <<"1","2">>, <<"0",".","1","2","5">>),
     FullRow(DateFebOffset, UserAlice, ModelSonnet, <<"2","0">>, <<"0",".","2","0">>),
     FullRow(DateDec, UserBob, ModelGpt, <<"1","1">>, <<"0",".","0","5">>)}

\* Malformed rows: a non-numeric and a negative token count, a non-numeric and
\* a negative cost, and short rows (fields missing at the end).
BadRows ==
    {FullRow(DateJanZ, UserAlice, ModelSonnet, <<"n","o","t","_","a">>, <<"0",".","0","5">>),
     FullRow(DateJanZ, UserAlice, ModelSonnet, <<"-","1">>, <<"0",".","0","5">>),
     FullRow(DateJanZ, UserAlice, ModelSonnet, <<"1","0">>, <<"a","b","c">>),
     FullRow(DateJanZ, UserAlice, ModelSonnet, <<"1","0">>, <<"-","0",".","1","0">>),
     <<<<"b","a","d">>, <<"d","a","t","a">>, <<"i","n","c">>>>,
     <<DateJanZ, UserAlice, <<"i","n","c">>>>,
     SubSeq(FullRow(DateJanZ, UserAlice, ModelSonnet, <<"1","0">>, <<"0",".","0","5">>), 1, 7)}

RawRows == GoodRows \cup BadRows

\* Headers of the streams of the model: the full export, and one lacking the
\* last column.
Headers == {Columns, SubSeq(Columns, 1, Len(Columns) - 1)}

\* The options a command line of the model may carry beside --file.
Flags == {"-o", "-b", "-g", "-a"}

(* -------------------------------- state -------------------------------- *)

VARIABLES
    argv,           \* the options on the command line
    file_ok,        \* whether --file names an existing readable file
    header,         \* the header row of the file
    consumed,       \* the data rows read from the stream so far
    events,         \* the events parse_csv_stream has yielded
    pc,             \* the position of the run
    raised,         \* the exception that ended the run, or "none"
    stderr,         \* messages on the diagnostic stream
    stdout,         \* what was written to standard output
    out_file,       \* the output file
    exit_code,      \* the exit code, -1 while running
    monthly_stats,  \* the result of aggregate_by_month
    total,          \* the result of compute_grand_total
    pool,           \* buckets under add/merge calls in any order
    calls,          \* the calls made on the pool, in order
    call,           \* a direct call of a function: its name and arguments
    result          \* what the direct call returned

vars ==
    <<argv, file_ok, header, consumed, events, pc, raised, stderr, stdout, out_file,
      exit_code, monthly_stats, total, pool, calls, call, result>>

(* ------------------------------- cli.py -------------------------------- *)

\* The options analyze() declares.
Declared == {"-f", "-o", "-b"}

Message(text, row, detail) == [text |-> text, row |-> row, detail |-> detail]

NoFile == [written |-> FALSE, lines |-> <<>>, newline |-> FALSE]

\* No direct call has been made.
NoCall == [fn |-> "none", args |-> <<>>]

Idle ==
    /\ consumed = <<>>
    /\ events = <<>>
    /\ raised = "none"
    /\ stderr = <<>>
    /\ stdout = <<>>
    /\ out_file = NoFile
    /\ exit_code = -1
    /\ monthly_stats = <<>>
    /\ total = NewStats(<<>>)

Init ==
    /\ argv \in SUBSET Flags
    /\ file_ok \in BOOLEAN
    /\ header \in Headers
    /\ pc = "start"
    /\ Idle
    /\ pool = [i \in 1..NumBuckets |-> NewStats(<<>>)]
    /\ calls = <<>>
    /\ call = NoCall
    /\ result = <<>>

Exit(code) == pc' = "exited" /\ exit_code' = code

\* The command line parser rejects an option analyze() does not declare.
UsageError ==
    /\ pc = "start"
    /\ \E opt \in argv \ Declared :
          stderr' = Append(stderr, Message("No such option", 0, opt))
    /\ Exit(2)
    /\ UNCHANGED <<argv, file_ok, header, consumed, events, raised, stdout, out_file,
                   monthly_stats, total, pool, calls, call, result>>

\* --file must exist (exists=True).
FileError ==
    /\ pc = "start"
    /\ argv \subseteq Declared
    /\ ~file_ok
    /\ stderr' = Append(stderr, Message("does not exist", 0, "-f"))
    /\ Exit(2)
    /\ UNCHANGED <<argv, file_ok, header, consumed, events, raised, stdout, out_file,
                   monthly_stats, total, pool, calls, call, result>>

\* analyze() is entered and parse_csv_file opens the stream.
OpenFile ==
    /\ pc = "start"
    /\ argv \subseteq Declared
    /\ file_ok
    /\ pc' = "reading"
    /\ UNCHANGED <<argv, file_ok, header, consumed, events, raised, stderr, stdout,
                   out_file, exit_code, monthly_stats, total, pool, calls, call, result>>

\* A reader that puts the newest event first.
YieldRowPrepend ==
    /\ pc = "reading"
    /\ Len(consumed) < MaxRows
    /\ \E fields \in RawRows :
          LET row == DictReader(header, fields)
          IN  /\ RowError(row) = "none"
              /\ consumed' = Append(consumed, fields)
              /\ events' = <<ParseRow(row)>> \o events
    /\ UNCHANGED <<argv, file_ok, header, pc, raised, stderr, stdout, out_file,
                   exit_code, monthly_stats, total, pool, calls, call, result>>

\* parse_csv_stream: the next row parses and its event is yielded.
YieldRow ==
    /\ pc = "reading"
    /\ Len(consumed) < MaxRows
    /\ \E fields \in RawRows :
          LET row == DictReader(header, fields)
          IN  /\ RowError(row) = "none"
              /\ consumed' = Append(consumed, fields)
              /\ events' = Append(events, ParseRow(row))
    /\ UNCHANGED <<argv, file_ok, header, pc, raised, stderr, stdout, out_file,
                   exit_code, monthly_stats, total, pool, calls, call, result>>

\* A skip whose warning counts the data rows from 1: enumerate(reader, start=1).
SkipRowFromOne ==
    /\ pc = "reading"
    /\ Len(consumed) < MaxRows
    /\ \E fields \in RawRows :
          LET err == RowError(DictReader(header, fields))
          IN  /\ err \in Caught
              /\ consumed' = Append(consumed, fields)
              /\ stderr' = Append(stderr, Message("Warning: Skipping row",
                                                  Len(consumed) + 1, err))
    /\ UNCHANGED <<argv, file_ok, header, events, pc, raised, stdout, out_file,
                   exit_code, monthly_stats, total, pool, calls, call, result>>

\* parse_csv_stream: the next row raises a caught exception; a warning with
\* the row number (enumerate(reader, start=2)) is printed and the loop goes on.
SkipRow ==
    /\ pc = "reading"
    /\ Len(consumed) < MaxRows
    /\ \E fields \in RawRows :
          LET err == RowError(DictReader(header, fields))
          IN  /\ err \in Caught
              /\ consumed' = Append(consumed, fields)
              /\ stderr' = Append(stderr, Message("Warning: Skipping row",
                                                  Len(consumed) + 2, err))
    /\ UNCHANGED <<argv, file_ok, header, events, pc, raised, stdout, out_file,
                   exit_code, monthly_stats, total, pool, calls, call, result>>

\* parse_csv_stream: the next row raises an exception the loop does not catch;
\* it leaves parse_csv_file and analyze(), and the process exits with code 1.
AbortRow ==
    /\ pc = "reading"
    /\ Len(consumed) < MaxRows
    /\ \E fields \in RawRows :
          LET err == RowError(DictReader(header, fields))
          IN  /\ err \notin Caught \cup {"none"}
              /\ consumed' = Append(consumed, fields)
              /\ raised' = err
    /\ Exit(1)
    /\ UNCHANGED <<argv, file_ok, header, events, stderr, stdout, out_file,
                   monthly_stats, total, pool, calls, call, result>>

\* The stream is exhausted: parse_csv_file returns the list of events.
EndOfStream ==
    /\ pc = "reading"
    /\ pc' = "parsed"
    /\ UNCHANGED <<argv, file_ok, header, consumed, events, raised, stderr, stdout,
                   out_file, exit_code, monthly_stats, total, pool, calls, call, result>>

\* An empty-input exit that echoes its message to standard output.
NoEventsToStdout ==
    /\ pc = "parsed"
    /\ events = <<>>
    /\ stdout' = Append(stdout, [text |-> "No valid usage events found in the CSV file.",
                                 lines |-> <<>>])
    /\ Exit(1)
    /\ UNCHANGED <<argv, file_ok, header, consumed, events, raised, stderr, out_file,
                   monthly_stats, total, pool, calls, call, result>>

\* if not events: the message goes to the diagnostic stream, Exit(code=1)
NoEvents ==
    /\ pc = "parsed"
    /\ events = <<>>
    /\ stderr' = Append(stderr, Message("No valid usage events found in the CSV file.", 0, ""))
    /\ Exit(1)
    /\ UNCHANGED <<argv, file_ok, header, consumed, events, raised, stdout, out_file,
                   monthly_stats, total, pool, calls, call, result>>

\* monthly_stats = aggregate_by_month(events)
Aggregate ==
    /\ pc = "parsed"
    /\ events # <<>>
    /\ monthly_stats' = AggregateByMonth(events)
    /\ pc' = "aggregated"
    /\ UNCHANGED <<argv, file_ok, header, consumed, events, raised, stderr, stdout,
                   out_file, exit_code, total, pool, calls, call, result>>

\* total = compute_grand_total(monthly_stats)
GrandTotal ==
    /\ pc = "aggregated"
    /\ total' = ComputeGrandTotal(monthly_stats)
    /\ pc' = "totaled"
    /\ UNCHANGED <<argv, file_ok, header, consumed, events, raised, stderr, stdout,
                   out_file, exit_code, monthly_stats, pool, calls, call, result>>

\* table = render_table(monthly_stats, total, show_models=breakdown)
Table == RenderTable(monthly_stats, total, "-b" \in argv, FALSE, FALSE)

\* The table goes to the output file and to standard output as well: the
\* variant of WriteOutputFile that echoes it too.
WriteOutputFileAndEcho ==
    /\ pc = "totaled"
    /\ "-o" \in argv
    /\ out_file' = [written |-> TRUE, lines |-> Table, newline |-> TRUE]
    /\ stdout' = stdout \o <<[text |-> "Output written to", lines |-> <<>>],
                             [text |-> "table", lines |-> Table]>>
    /\ Exit(0)
    /\ UNCHANGED <<argv, file_ok, header, consumed, events, raised, stderr,
                   monthly_stats, total, pool, calls, call, result>>

\* The table and a newline are written to the output file, and a confirmation
\* line to standard output.
WriteOutputFile ==
    /\ pc = "totaled"
    /\ "-o" \in argv
    /\ out_file' = [written |-> TRUE, lines |-> Table, newline |-> TRUE]
    /\ stdout' = Append(stdout, [text |-> "Output written to", lines |-> <<>>])
    /\ Exit(0)
    /\ UNCHANGED <<argv, file_ok, header, consumed, events, raised, stderr,
                   monthly_stats, total, pool, calls, call, result>>

\* The table is echoed to standard output.
EchoTable ==
    /\ pc = "totaled"
    /\ "-o" \notin argv
    /\ stdout' = Append(stdout, [text |-> "table", lines |-> Table])
    /\ Exit(0)
    /\ UNCHANGED <<argv, file_ok, header, consumed, events, raised, stderr, out_file,
                   monthly_stats, total, pool, calls, call, result>>

Next ==
    \/ UsageError
    \/ FileError
    \/ OpenFile
    \/ YieldRow
    \/ SkipRow
    \/ AbortRow
    \/ EndOfStream
    \/ NoEvents
    \/ Aggregate
    \/ GrandTotal
    \/ WriteOutputFile
    \/ EchoTable

Spec == Init /\ [][Next]_vars

(* ------------------- add and merge calls in any order ------------------ *)

\* The events the calls on the pool add: those of the rows _parse_row accepts.
PoolEvents == {ParseRow(DictReader(Columns, fields)) : fields \in GoodRows}

InitPool ==
    /\ argv = {}
    /\ file_ok = TRUE
    /\ header = Columns
    /\ pc = "pool"
    /\ Idle
    /\ pool = [i \in 1..NumBuckets |-> NewStats(<<>>)]
    /\ calls = <<>>
    /\ call = NoCall
    /\ result = <<>>

\* pool[i].add(event)
PoolAdd ==
    /\ pc = "pool"
    /\ Len(calls) < MaxOps
    /\ \E i \in 1..NumBuckets, event \in PoolEvents :
          /\ pool' = [pool EXCEPT ![i] = Add(@, event)]
          /\ calls' = Append(calls, [op |-> "add", i |-> i, j |-> i])
    /\ UNCHANGED <<argv, file_ok, header, consumed, events, pc, raised, stderr, stdout,
                   out_file, exit_code, monthly_stats, total, call, result>>

\* pool[i].merge(pool[j]); i = j merges a bucket into itself
PoolMerge ==
    /\ pc = "pool"
    /\ Len(calls) < MaxOps
    /\ \E i \in 1..NumBuckets, j \in 1..NumBuckets :
          /\ pool' = [pool EXCEPT ![i] = Merge(@, pool[j])]
          /\ calls' = Append(calls, [op |-> "merge", i |-> i, j |-> j])
    /\ UNCHANGED <<argv, file_ok, header, consumed, events, pc, raised, stderr, stdout,
                   out_file, exit_code, monthly_stats, total, call, result>>

NextPool == PoolAdd \/ PoolMerge

SpecPool == InitPool /\ [][NextPool]_vars

(* ------------------------ direct calls of functions -------------------- *)

\* An unknown model name longer than the room a breakdown row leaves for it.
ModelGemini == <<"g","e","m","i","n","i","-","3","-","p","r","o","-","p","r","e","v","i","e","w">>

\* The events the rendered buckets are built from: those of the rows
\* _parse_row accepts, one with the long model name, and one that costs as
\* much as the first January event, for another user and another model.
TableEvents ==
    PoolEvents
    \cup {ParseRow(DictReader(Columns,
              FullRow(DateJanZ, UserAlice, ModelGemini, <<"3","0">>, <<"0",".","3","0">>))),
          ParseRow(DictReader(Columns,
              FullRow(DateJanZ, UserBob, ModelGpt, <<"1","3">>, <<"0",".","0","5">>)))}

\* The event lists of the model: up to MaxRows events in any order.
EventLists == UNION {[1..n -> TableEvents] : n \in 0..MaxRows}

\* The pieces model names are made of: the three keywords in mixed case, the
\* exactly matched name in two cases, and a piece no rule knows.
NameParts ==
    {<<"h","a","i","k","u">>, <<"O","p","u","s">>, <<"S","O","N","N","E","T">>,
     <<"g","p","t","-","5",".","2">>, <<"G","P","T","-","5",".","2">>, <<"o","3","-">>}

\* The model names of the calls: up to MaxParts pieces in a row.
RECURSIVE NamesOfParts(_)
NamesOfParts(n) ==
    IF n = 0 THEN {<<>>}
    ELSE LET shorter == NamesOfParts(n - 1)
         IN  shorter \cup {head \o part : head \in shorter, part \in NameParts}

ModelNames == NamesOfParts(MaxParts)

\* The amounts of the calls of format_currency: every value of CostDigits
\* decimals below one unit, beside three whole parts.
Amounts ==
    {whole * Pow10(CostDigits) + frac :
        whole \in {0, 1, 1234}, frac \in 0..(Pow10(CostDigits) - 1)}

InitCalls ==
    /\ argv = {}
    /\ file_ok = TRUE
    /\ header = Columns
    /\ pc = "call"
    /\ Idle
    /\ pool = [i \in 1..NumBuckets |-> NewStats(<<>>)]
    /\ calls = <<>>
    /\ call = NoCall
    /\ result = <<>>

\* event.normalized_model for an event with the given model name
CallNormalizedModel ==
    /\ pc = "call"
    /\ \E name \in ModelNames :
          LET event == [ParseRow(DictReader(Columns,
                            FullRow(DateJanZ, UserAlice, ModelGpt, <<"1">>, <<"0">>)))
                        EXCEPT !.model = name]
          IN  /\ call' = [fn |-> "normalized_model", args |-> event]
              /\ result' = NormalizedModel(event)
    /\ pc' = "returned"
    /\ UNCHANGED <<argv, file_ok, header, consumed, events, raised, stderr, stdout,
                   out_file, exit_code, monthly_stats, total, pool, calls>>

\* format_currency(value)
CallFormatCurrency ==
    /\ pc = "call"
    /\ \E value \in Amounts :
          /\ call' = [fn |-> "format_currency", args |-> value]
          /\ result' = FormatCurrency(value)
    /\ pc' = "returned"
    /\ UNCHANGED <<argv, file_ok, header, consumed, events, raised, stderr, stdout,
                   out_file, exit_code, monthly_stats, total, pool, calls>>

\* monthly_stats = aggregate_by_month(evs); total = compute_grand_total(...);
\* render_table(monthly_stats, total, show_models=..., group_by_user=...,
\*              anonymize=...)
CallRenderTable ==
    /\ pc = "call"
    /\ \E evs \in EventLists, show_models \in BOOLEAN, group_by_user \in BOOLEAN,
          anonymize \in BOOLEAN :
          LET stats == AggregateByMonth(evs)
              tot == ComputeGrandTotal(stats)
          IN  /\ call' = [fn |-> "render_table",
                          args |-> [events |-> evs, monthly_stats |-> stats, total |-> tot,
                                    show_models |-> show_models,
                                    group_by_user |-> group_by_user,
                                    anonymize |-> anonymize]]
              /\ result' = RenderTable(stats, tot, show_models, group_by_user, anonymize)
    /\ pc' = "returned"
    /\ UNCHANGED <<argv, file_ok, header, consumed, events, raised, stderr, stdout,
                   out_file, exit_code, monthly_stats, total, pool, calls>>

\* A Date with an offset west of Greenwich, on the last evening of a month.
DateJanMinus == <<"2","0","2","6","-","0","1","-","3","1","T","2","3",":","3","0",":","0","0","-","0","5",":","0","0">>

\* The rows of the direct calls of _parse_row: the rows of the streams, a row
\* with a "-hh:mm" Date, and a full row whose Date is no date.
ParseFields ==
    RawRows
    \cup {FullRow(DateJanMinus, UserAlice, ModelSonnet, <<"1","0">>, <<"0",".","0","5">>),
          FullRow(<<"b","a","d">>, UserAlice, ModelSonnet, <<"1","0">>, <<"0",".","0","5">>)}

\* _parse_row(row) for a row mapping of csv.DictReader: the event returned,
\* or the exception raised.
CallParseRow ==
    /\ pc = "call"
    /\ \E hdr \in Headers, fields \in ParseFields :
          LET row == DictReader(hdr, fields)
              err == RowError(row)
          IN  /\ call' = [fn |-> "_parse_row", args |-> row]
              /\ result' = [raised |-> err,
                            event |-> IF err = "none" THEN ParseRow(row) ELSE NoneVal]
    /\ pc' = "returned"
    /\ UNCHANGED <<argv, file_ok, header, consumed, events, raised, stderr, stdout,
                   out_file, exit_code, monthly_stats, total, pool, calls>>

\* aggregate_by_month(evs)
CallAggregateByMonth ==
    /\ pc = "call"
    /\ \E evs \in EventLists :
          /\ call' = [fn |-> "aggregate_by_month", args |-> evs]
          /\ result' = AggregateByMonth(evs)
    /\ pc' = "returned"
    /\ UNCHANGED <<argv, file_ok, header, consumed, events, raised, stderr, stdout,
                   out_file, exit_code, monthly_stats, total, pool, calls>>

\* compute_grand_total(monthly_stats) for the buckets of aggregate_by_month(evs),
\* run on objects: the call gets the stored buckets, and returns the stored
\* total and leaves the heap as merge() wrote it.
CallComputeGrandTotal ==
    /\ pc = "call"
    /\ \E evs \in EventLists :
          LET stats == AggregateByMonth(evs)
              stored == StoreBuckets(<<>>, stats, 1)
              done == ComputeGrandTotalAt(stored.heap, stored.buckets)
          IN  /\ call' = [fn |-> "compute_grand_total",
                          args |-> [monthly_stats |-> stats, heap |-> stored.heap,
                                    buckets |-> stored.buckets]]
              /\ result' = [heap |-> done.heap, total |-> done.total]
    /\ pc' = "returned"
    /\ UNCHANGED <<argv, file_ok, header, consumed, events, raised, stderr, stdout,
                   out_file, exit_code, monthly_stats, total, pool, calls>>

NextCalls ==
    \/ CallNormalizedModel
    \/ CallFormatCurrency
    \/ CallRenderTable
    \/ CallAggregateByMonth
    \/ CallComputeGrandTotal
    \/ CallParseRow

SpecCalls == InitCalls /\ [][NextCalls]_vars

(* ------------------------------ properties ----------------------------- *)

\* The six accumulators of a bucket or of a per-model / per-user entry.
Numbers(st) ==
    <<st.input_tokens, st.output_tokens, st.cache_create, st.cache_read,
      st.total_tokens, st.cost>>

\* The six sums of an event sequence, in the order of Numbers.
RECURSIVE EventSums(_)
EventSums(evs) ==
    IF evs = <<>> THEN <<0, 0, 0, 0, 0, 0>>
    ELSE LET rest == EventSums(Tail(evs))
             e == evs[1]
         IN  <<rest[1] + e.input_no_cache, rest[2] + e.output_tokens,
               rest[3] + e.cache_write, rest[4] + e.cache_read,
               rest[5] + e.total_tokens, rest[6] + e.cost>>

\* The six sums over the entries of a per-user or per-model dict.
RECURSIVE EntrySums(_)
EntrySums(d) ==
    IF d = <<>> THEN <<0, 0, 0, 0, 0, 0>>
    ELSE LET rest == EntrySums(Tail(d))
         IN  [n \in 1..6 |-> rest[n] + Numbers(d[1].v)[n]]

\* The six sums over a list of buckets.
RECURSIVE BucketSums(_)
BucketSums(stats) ==
    IF stats = <<>> THEN <<0, 0, 0, 0, 0, 0>>
    ELSE LET rest == BucketSums(Tail(stats))
         IN  [n \in 1..6 |-> rest[n] + Numbers(stats[1])[n]]

\* The events of a month, in input order.
EventsOfMonth(evs, label) == SelectSeq(evs, LAMBDA e : MonthKey(e) = label)

\* aggregate_by_month has returned.
Aggregated == pc \in {"aggregated", "totaled"} \/ exit_code = 0

\* compute_grand_total has returned.
Totaled == pc = "totaled" \/ exit_code = 0

\* The mapping csv.DictReader makes of the k-th data row read.
RowAt(k) == DictReader(header, consumed[k])

\* The events of the rows read that _parse_row accepts, in file order.
RECURSIVE AcceptedEvents(_)
AcceptedEvents(k) ==
    IF k = 0 THEN <<>>
    ELSE LET row == RowAt(k)
         IN  IF RowError(row) = "none" THEN Append(AcceptedEvents(k - 1), ParseRow(row))
             ELSE AcceptedEvents(k - 1)

\* The k-th row read has a Total Tokens field that is no number.
NonNumericTokens(k) ==
    /\ Len(consumed[k]) >= 10
    /\ ~IntOf(consumed[k][10]).ok

Warnings == SelectSeq(stderr, LAMBDA m : m.text = "Warning: Skipping row")

\* C1: once compute_grand_total(aggregate_by_month(events)) has returned, each
\* of the six accumulators of the total is the sum of the matching field over
\* all events.
C1_GrandTotalIsEventSum == Totaled => Numbers(total) = EventSums(events)

C1_Witness ==
    /\ pc = "totaled"
    /\ Len(events) >= 3
    /\ Len(monthly_stats) >= 2
    /\ total.cost > 0

\* C2: in every bucket reached by add and merge calls in any order, each of
\* the six top-level accumulators is the sum of that accumulator over the
\* entries of user_stats.
C2_TopLevelIsUserSum ==
    \A i \in 1..NumBuckets : Numbers(pool[i]) = EntrySums(pool[i].user_stats)

C2_Witness ==
    /\ Len(calls) >= 3
    /\ LET last == calls[Len(calls)]
       IN  /\ last.op = "merge"
           /\ last.i # last.j
           /\ pool[last.j].user_stats # <<>>
           /\ \E n \in 1..Len(pool[last.j].user_stats) :
                 /\ pool[last.j].user_stats[n].k \in DictKeys(pool[last.i].user_stats)
                 /\ DictGet(pool[last.i].user_stats, pool[last.j].user_stats[n].k)
                        # pool[last.j].user_stats[n].v

\* C3: in every monthly bucket and in the Total bucket, each of the six
\* top-level accumulators is the sum of that accumulator over the entries of
\* model_stats.
C3_TopLevelIsModelSum ==
    /\ \A i \in 1..Len(monthly_stats) :
          Numbers(monthly_stats[i]) = EntrySums(monthly_stats[i].model_stats)
    /\ Numbers(total) = EntrySums(total.model_stats)

\* C4: aggregate_by_month partitions the events by month_key: the labels are
\* the month keys of the input, one bucket each; a bucket's accumulators are
\* the sums over the events of its month; total_tokens is conserved.
C4_PartitionByMonth ==
    Aggregated =>
        /\ {monthly_stats[i].month : i \in 1..Len(monthly_stats)}
               = {MonthKey(events[k]) : k \in 1..Len(events)}
        /\ Len(monthly_stats) = Cardinality({MonthKey(events[k]) : k \in 1..Len(events)})
        /\ \A i \in 1..Len(monthly_stats) :
              Numbers(monthly_stats[i])
                  = EventSums(EventsOfMonth(events, monthly_stats[i].month))
        /\ BucketSums(monthly_stats)[5] = EventSums(events)[5]

C4_Witness ==
    /\ pc = "aggregated"
    /\ Len(events) = 3
    /\ Len(monthly_stats) = 2
    /\ MonthKey(events[1]) = MonthKey(events[3])
    /\ MonthKey(events[1]) # MonthKey(events[2])

\* C5: the list aggregate_by_month returns is strictly ascending by label.
C5_StrictlyAscending ==
    \A i \in 1..(Len(monthly_stats) - 1) :
        StrLess(monthly_stats[i].month, monthly_stats[i + 1].month)

C5_Witness ==
    /\ pc = "aggregated"
    /\ Len(monthly_stats) = 3
    /\ StrLess(MonthKey(events[2]), MonthKey(events[1]))
    /\ StrLess(MonthKey(events[3]), MonthKey(events[2]))

\* C6: parse_csv_stream never aborts on a malformed row: every row read that
\* fails to parse has its warning, and no exception leaves the loop.
C6_NeverAborts ==
    /\ raised = "none"
    /\ \A k \in 1..Len(consumed) :
          RowError(RowAt(k)) # "none" =>
              \E n \in 1..Len(Warnings) : Warnings[n].row = k + 1

\* C7: a row with a non-numeric token count is skipped with a warning and is
\* in no bucket; the events returned are the accepted rows, in file order.
C7_SkippedRowsLeaveNoTrace ==
    LET accepted == AcceptedEvents(Len(consumed))
    IN  /\ events = accepted
        /\ \A k \in 1..Len(consumed) :
              NonNumericTokens(k) =>
                  \E n \in 1..Len(Warnings) :
                      Warnings[n].row = k + 1 /\ Warnings[n].detail = "ValueError"
        /\ Aggregated => BucketSums(monthly_stats) = EventSums(accepted)

C7_Witness ==
    /\ pc = "aggregated"
    /\ Len(consumed) = 3
    /\ Len(events) = 2
    /\ events[1] # events[2]
    /\ NonNumericTokens(2)

\* C8: when parsing yields no event, the run ends with the "No valid usage
\* events" message on the diagnostic stream and exit code 1, with nothing on
\* standard output and no output file; no aggregation is made of no events.
C8_NoEventsExitsOne ==
    /\ pc \in {"aggregated", "totaled"} => events # <<>>
    /\ (pc = "exited" /\ raised = "none" /\ argv \subseteq Declared /\ file_ok
            /\ events = <<>>) =>
          /\ exit_code = 1
          /\ \E n \in 1..Len(stderr) :
                stderr[n].text = "No valid usage events found in the CSV file."
          /\ stdout = <<>>
          /\ out_file = NoFile

C8_Witness ==
    /\ pc = "exited"
    /\ raised = "none"
    /\ "-o" \in argv
    /\ Len(consumed) >= 2
    /\ events = <<>>
    /\ exit_code = 1

\* C9: with both -b and -g the run exits non-zero with a "Cannot use both"
\* message and renders no table.
C9_BothFlagsRejected ==
    (pc = "exited" /\ {"-b", "-g"} \subseteq argv) =>
        /\ exit_code # 0
        /\ \E n \in 1..Len(stderr) : stderr[n].text = "Cannot use both"
        /\ stdout = <<>>
        /\ out_file = NoFile

\* A table with a user row showing a "User-" token.
ShowsUserTokens(lines) ==
    \E n \in 1..Len(lines) : Contains(lines[n], Branch \o <<"U","s","e","r","-">>)

\* C10: with -a and no -g the run exits non-zero with a "requires" message;
\* with -g and -a a run over a file with valid events exits 0 and shows
\* "User-" tokens.
C10_AnonymizeRequiresGroupByUser ==
    /\ (pc = "exited" /\ "-a" \in argv /\ "-g" \notin argv) =>
          /\ exit_code # 0
          /\ \E n \in 1..Len(stderr) : stderr[n].text = "requires"
    /\ (pc = "exited" /\ {"-g", "-a"} \subseteq argv /\ "-b" \notin argv /\ file_ok) =>
          /\ exit_code \in {0, 1}
          /\ exit_code = 0 =>
                \/ \E n \in 1..Len(stdout) : ShowsUserTokens(stdout[n].lines)
                \/ ShowsUserTokens(out_file.lines)

\* C11: a run that parsed at least one event and was not aborted exits 0, and
\* a run that exits 0 delivers the table to exactly one place: with an output
\* path the file holds the table and a newline and standard output holds only
\* the confirmation line; without one standard output holds the table and no
\* file is written.
C11_TableToOneDestination ==
    /\ (pc = "exited" /\ raised = "none" /\ events # <<>>) => exit_code = 0
    /\ (pc = "exited" /\ exit_code = 0) =>
          /\ events # <<>>
          /\ "-o" \in argv =>
                /\ out_file = [written |-> TRUE, lines |-> Table, newline |-> TRUE]
                /\ stdout = <<[text |-> "Output written to", lines |-> <<>>]>>
          /\ "-o" \notin argv =>
                /\ stdout = <<[text |-> "table", lines |-> Table]>>
                /\ out_file = NoFile

C11_Witness ==
    /\ pc = "exited"
    /\ exit_code = 0
    /\ "-o" \in argv
    /\ out_file.written
    /\ Len(out_file.lines) > 5

(* --------------------------- reading the table -------------------------- *)

\* A string without its leading and trailing spaces.
Strip(s) ==
    LET inked == {i \in 1..Len(s) : s[i] # " "}
    IN  IF inked = {} THEN <<>>
        ELSE SubSeq(s, CHOOSE i \in inked : \A j \in inked : i <= j,
                       CHOOSE i \in inked : \A j \in inked : i >= j)

\* The k-th cell of a row line: the text between the k-th and the next
\* vertical bar, stripped.
Cell(line, k) ==
    LET bars == {i \in 1..Len(line) : line[i] = BOX_V}
        bar(n) == CHOOSE i \in bars : Cardinality({j \in bars : j < i}) = n - 1
    IN  Strip(SubSeq(line, bar(k) + 1, bar(k + 1) - 1))

IsRow(line) == line[1] = BOX_V

IsSeparator(line) == line[1] = BOX_LJ

\* A breakdown row: its first cell starts with the tree-branch prefix.
IsSubRow(line) == IsRow(line) /\ SubSeq(line, 3, 7) = Branch

\* The name a breakdown row shows after the prefix.
SubRowName(line) == LET cell == Cell(line, 1) IN SubSeq(cell, 4, Len(cell))

\* The index of the main row of the bucket labelled label.
MainRow(lines, label) ==
    CHOOSE n \in 1..Len(lines) : IsRow(lines[n]) /\ Cell(lines[n], 1) = label

\* The lines after the main row of the i-th bucket and before the next main
\* row, or before the Total row after the last bucket.
BlockAfter(lines, stats, i) ==
    SubSeq(lines, MainRow(lines, stats[i].month) + 1,
           (IF i < Len(stats) THEN MainRow(lines, stats[i + 1].month) ELSE Len(lines) - 1) - 1)

\* The names of the breakdown rows among some lines, in their order.
SubRowNames(lines) ==
    LET rows == SelectSeq(lines, IsSubRow)
    IN  [n \in 1..Len(rows) |-> SubRowName(rows[n])]

\* names lists every key of the map d once, never a smaller cost before a
\* larger one.
ListsByCost(names, d) ==
    /\ Len(names) = Len(d)
    /\ {names[n] : n \in 1..Len(names)} = DictKeys(d)
    /\ \A a \in 1..Len(names), b \in 1..Len(names) :
          a < b => DictGet(d, names[a]).cost >= DictGet(d, names[b]).cost

RenderCall == pc = "returned" /\ call.fn = "render_table"

\* C12: with show_models on (and group_by_user off) the breakdown rows of each
\* month are one per entry of that month's model_stats, in non-increasing
\* order of cost, and every breakdown row of the table follows a separator.
C12_ModelRowsByCost ==
    (RenderCall /\ call.args.show_models /\ ~call.args.group_by_user) =>
        /\ \A i \in 1..Len(call.args.monthly_stats) :
              ListsByCost(SubRowNames(BlockAfter(result, call.args.monthly_stats, i)),
                          call.args.monthly_stats[i].model_stats)
        /\ \A n \in 1..Len(result) : IsSubRow(result[n]) => IsSeparator(result[n - 1])

\* A month whose second model costs more than its first is rendered with its
\* breakdown rows.
C12_Witness ==
    /\ RenderCall /\ call.args.show_models /\ ~call.args.group_by_user
    /\ \E i \in 1..Len(call.args.monthly_stats) :
          LET d == call.args.monthly_stats[i].model_stats
          IN  /\ Len(d) >= 2
              /\ d[1].v.cost < d[2].v.cost
              /\ Len(SubRowNames(BlockAfter(result, call.args.monthly_stats, i))) >= 2

\* C13: with group_by_user on, the main row of each month is followed by
\* exactly a separator and a row for each user of the month, the users in
\* non-increasing order of cost, and then by the separator that closes the
\* month.
C13_UserRowsByCost ==
    (RenderCall /\ call.args.group_by_user) =>
        \A i \in 1..Len(call.args.monthly_stats) :
            LET block == BlockAfter(result, call.args.monthly_stats, i)
                users == call.args.monthly_stats[i].user_stats
                shown == [n \in 1..Len(users) |-> SubRowName(block[2 * n])]
            IN  /\ Len(block) = 2 * Len(users) + 1
                /\ \A n \in 1..Len(block) :
                      IF n % 2 = 1 THEN IsSeparator(block[n]) ELSE IsSubRow(block[n])
                /\ \E names \in [1..Len(users) -> DictKeys(users)] :
                      /\ ListsByCost(names, users)
                      /\ \A n \in 1..Len(users) :
                            shown[n] = DisplayName(names[n], call.args.anonymize)

\* A month whose second user costs more than its first is rendered grouped by
\* user.
C13_Witness ==
    /\ RenderCall /\ call.args.group_by_user
    /\ \E i \in 1..Len(call.args.monthly_stats) :
          LET d == call.args.monthly_stats[i].user_stats
          IN  /\ Len(d) >= 2
              /\ d[1].v.cost < d[2].v.cost
              /\ Len(BlockAfter(result, call.args.monthly_stats, i)) = 5

\* The columns of the layout the call asked for.
CallColumns == GetColumns(call.args.show_models, call.args.group_by_user)

\* The sum of the widths of the columns from the k-th on.
RECURSIVE WidthFrom(_, _)
WidthFrom(columns, k) ==
    IF k > Len(columns) THEN 0 ELSE columns[k].width + WidthFrom(columns, k + 1)

\* C14: every line of a rendered table is as long as the sum of the column
\* widths of its layout plus the number of columns plus one.
C14_FixedWidth ==
    RenderCall =>
        \A n \in 1..Len(result) :
            Len(result[n]) = WidthFrom(CallColumns, 1) + Len(CallColumns) + 1

\* A line made of the first character, fill characters and the last one.
IsRule(line, first, fill, last) ==
    /\ line[1] = first
    /\ line[Len(line)] = last
    /\ \A i \in 2..(Len(line) - 1) : line[i] \in fill

\* A row line whose first cell reads Total.
IsTotalRow(line) == IsRow(line) /\ Cell(line, 1) = <<"T","o","t","a","l">>

\* C15: a rendered table starts with the top border and the header row and
\* ends with a separator, the Total row and the bottom border; one line only
\* is a Total row, and its Models cell is blank unless group_by_user is on.
C15_TableFrame ==
    RenderCall =>
        LET last == Len(result)
        IN  /\ last >= 5
            /\ IsRule(result[1], BOX_TL, {BOX_H, BOX_TJ}, BOX_TR)
            /\ IsRow(result[2])
            /\ \A k \in 1..Len(CallColumns) : Cell(result[2], k) = CallColumns[k].name
            /\ IsRule(result[last - 2], BOX_LJ, {BOX_H, BOX_X}, BOX_RJ)
            /\ IsTotalRow(result[last - 1])
            /\ IsRule(result[last], BOX_BL, {BOX_H, BOX_BJ}, BOX_BR)
            /\ Cardinality({n \in 1..last : IsTotalRow(result[n])}) = 1
            /\ ~call.args.group_by_user => Cell(result[last - 1], 2) = <<>>

\* Two months are rendered with a Models column.
C15_Witness ==
    /\ RenderCall
    /\ ~call.args.group_by_user
    /\ Len(call.args.monthly_stats) >= 2
    /\ IsTotalRow(result[Len(result) - 1])

\* The user identifiers of the buckets of the call.
CallUsers == UNION {DictKeys(call.args.monthly_stats[i].user_stats) :
                       i \in 1..Len(call.args.monthly_stats)}

\* "User-" and eight hexadecimal digits.
IsUserToken(name) ==
    /\ Len(name) = 13
    /\ SubSeq(name, 1, 5) = <<"U","s","e","r","-">>
    /\ \A i \in 6..13 : name[i] \in {"0","1","2","3","4","5","6","7","8","9",
                                     "a","b","c","d","e","f"}

Known(word) == Contains(Lower(call.args.model), word)

NormalizeCall == pc = "returned" /\ call.fn = "normalized_model"

\* C17: the rules of normalized_model are tried in the order haiku, opus,
\* sonnet, exact gpt-5.2 on the lower-cased name and the first that matches
\* decides; a name no rule matches is returned as it is.
C17_FirstRuleWins ==
    NormalizeCall =>
        LET haiku == Known(<<"h","a","i","k","u">>)
            opus == Known(<<"o","p","u","s">>)
            sonnet == Known(<<"s","o","n","n","e","t">>)
            gpt == Lower(call.args.model) = <<"g","p","t","-","5",".","2">>
        IN  /\ haiku => result = <<"h","a","i","k","u","-","4","-","5">>
            /\ (~haiku /\ opus) => result = <<"o","p","u","s","-","4","-","5">>
            /\ (~haiku /\ ~opus /\ sonnet) => result = <<"s","o","n","n","e","t","-","4","-","5">>
            /\ (~haiku /\ ~opus /\ ~sonnet /\ gpt) => result = <<"g","p","t","-","5","-","2">>
            /\ (~haiku /\ ~opus /\ ~sonnet /\ ~gpt) => result = call.args.model

\* A name with "opus" before "haiku" is normalized to haiku-4-5.
C17_Witness ==
    /\ NormalizeCall
    /\ Known(<<"o","p","u","s","h","a","i","k","u">>)
    /\ result = <<"h","a","i","k","u","-","4","-","5">>

\* str.upper(), for the letters of the model
Upper(s) ==
    [i \in 1..Len(s) |->
        IF s[i] \in Range(LowerCase) THEN UpperCase[IndexOf(LowerCase, s[i])] ELSE s[i]]

\* C18: normalizing the normalized name gives the normalized name; a name
\* that matches a rule normalizes to the same display name as its upper-cased
\* and its lower-cased spelling; a name no rule matches is returned as it is.
C18_IdempotentAnyCase ==
    NormalizeCall =>
        LET matched == \/ Known(<<"h","a","i","k","u">>)
                       \/ Known(<<"o","p","u","s">>)
                       \/ Known(<<"s","o","n","n","e","t">>)
                       \/ Lower(call.args.model) = <<"g","p","t","-","5",".","2">>
        IN  /\ NormalizedModel([call.args EXCEPT !.model = result]) = result
            /\ matched =>
                  /\ NormalizedModel([call.args EXCEPT !.model = Upper(@)]) = result
                  /\ NormalizedModel([call.args EXCEPT !.model = Lower(@)]) = result
            /\ ~matched => result = call.args.model

\* A name in mixed case that matches the sonnet rule is normalized.
C18_Witness ==
    /\ NormalizeCall
    /\ call.args.model # Lower(call.args.model)
    /\ call.args.model # Upper(call.args.model)
    /\ result = <<"s","o","n","n","e","t","-","4","-","5">>

FormatCall == pc = "returned" /\ call.fn = "format_currency"

\* The hundredths a currency text shows: its digits read as one number.
CentsShown(text) == DigitsValue(SelectSeq(text, IsDigit))

\* "$", the whole part with a comma before every group of three digits and
\* no leading zero, a point, two digits.
IsCurrencyText(text) ==
    LET whole == SubSeq(text, 2, Len(text) - 3)
    IN  /\ Len(text) >= 5
        /\ text[1] = "$"
        /\ text[Len(text) - 2] = "."
        /\ IsDigit(text[Len(text) - 1]) /\ IsDigit(text[Len(text)])
        /\ \A i \in 1..Len(whole) :
              IF (Len(whole) - i + 1) % 4 = 0 THEN whole[i] = "," ELSE IsDigit(whole[i])
        /\ whole[1] = "0" => Len(whole) = 1

\* Twice the distance between the amount and the hundredths shown, in units
\* of the last digit of the amount.
TwiceOff(text, value) ==
    LET shown == CentsShown(text) * Pow10(CostDigits - 2)
    IN  IF shown >= value THEN 2 * (shown - value) ELSE 2 * (value - shown)

\* C19 as stated: the text shows the amount rounded to the nearest hundredth,
\* a tie always upwards, with "$", thousands separators and two decimals.
C19_RoundsHalfUp ==
    FormatCall =>
        /\ IsCurrencyText(result)
        /\ TwiceOff(result, call.args) <= Pow10(CostDigits - 2)
        /\ TwiceOff(result, call.args) = Pow10(CostDigits - 2) =>
              CentsShown(result) * Pow10(CostDigits - 2) > call.args

\* C19 amended: the text shows the amount rounded to the nearest hundredth, a
\* tie to the even hundredth, with "$", thousands separators and two decimals.
C19_RoundsHalfEven ==
    FormatCall =>
        /\ IsCurrencyText(result)
        /\ TwiceOff(result, call.args) <= Pow10(CostDigits - 2)
        /\ TwiceOff(result, call.args) = Pow10(CostDigits - 2) => CentsShown(result) % 2 = 0

\* An amount above a thousand, half-way between two hundredths, is shown as
\* the lower, even one.
C19_Witness ==
    /\ FormatCall
    /\ TwiceOff(result, call.args) = Pow10(CostDigits - 2)
    /\ CentsShown(result) * Pow10(CostDigits - 2) < call.args
    /\ Contains(result, <<",">>)

\* The step pool[i].merge(pool[j]).
MergeStep(i, j) == calls' = Append(calls, [op |-> "merge", i |-> i, j |-> j])

\* What merge does to the per-user map and the six sums of the receiver, and
\* to the other buckets.
MergeFolds(i, j) ==
    /\ Numbers(pool'[i]) = [n \in 1..6 |-> Numbers(pool[i])[n] + Numbers(pool[j])[n]]
    /\ DictKeys(pool'[i].user_stats)
          = DictKeys(pool[i].user_stats) \cup DictKeys(pool[j].user_stats)
    /\ \A user \in DictKeys(pool'[i].user_stats) :
          Numbers(DictGet(pool'[i].user_stats, user))
             = [n \in 1..6 |-> Numbers(StatOrZero(pool[i].user_stats, user))[n]
                                 + Numbers(StatOrZero(pool[j].user_stats, user))[n]]
    /\ \A k \in 1..NumBuckets : k # i => pool'[k] = pool[k]

\* C20 as stated: merge folds the per-user map and the six sums of the other
\* bucket into the receiver and leaves the receiver's model_stats and models
\* as they were.
C20_MergeLeavesModelSet ==
    [][\A i \in 1..NumBuckets, j \in 1..NumBuckets :
          MergeStep(i, j) =>
              /\ MergeFolds(i, j)
              /\ pool'[i].model_stats = pool[i].model_stats
              /\ pool'[i].models = pool[i].models]_vars

\* C20 amended: merge folds the per-user map, the six sums and the set of
\* model names of the other bucket into the receiver and leaves the
\* receiver's model_stats as it was.
C20_MergeLeavesModelStats ==
    [][\A i \in 1..NumBuckets, j \in 1..NumBuckets :
          MergeStep(i, j) =>
              /\ MergeFolds(i, j)
              /\ pool'[i].model_stats = pool[i].model_stats
              /\ pool'[i].models = pool[i].models \cup pool[j].models]_vars

\* A bucket that only ever received merges, as the Total bucket does, has
\* taken model names from a bucket with per-model entries and has none itself.
C20_Witness ==
    /\ calls # <<>>
    /\ LET last == calls[Len(calls)]
       IN  /\ last.op = "merge"
           /\ last.i # last.j
           /\ \A n \in 1..Len(calls) : calls[n].op = "add" => calls[n].i # last.i
           /\ pool[last.j].model_stats # <<>>
           /\ pool[last.i].model_stats = <<>>
           /\ pool[last.i].models # {}

\* The six sums of one user's entries over the buckets from the i-th on; a
\* bucket without the user adds nothing.
RECURSIVE UserSums(_, _, _)
UserSums(user, stats, i) ==
    IF i > Len(stats) THEN <<0, 0, 0, 0, 0, 0>>
    ELSE LET rest == UserSums(user, stats, i + 1)
             mine == Numbers(StatOrZero(stats[i].user_stats, user))
         IN  [n \in 1..6 |-> rest[n] + mine[n]]

\* The users of a list of buckets.
UsersOf(stats) == UNION {DictKeys(stats[i].user_stats) : i \in 1..Len(stats)}

\* C21: once compute_grand_total has returned, the per-user map of the total
\* has an entry for exactly the users of the months, and each entry's six
\* accumulators are the sums of that user's entries over the months.
C21_TotalUsersAreMonthSums ==
    Totaled =>
        /\ DictKeys(total.user_stats) = UsersOf(monthly_stats)
        /\ Len(total.user_stats) = Cardinality(UsersOf(monthly_stats))
        /\ \A user \in UsersOf(monthly_stats) :
              Numbers(DictGet(total.user_stats, user)) = UserSums(user, monthly_stats, 1)

\* A user of two months and a user of one month only are totalled.
C21_Witness ==
    /\ Totaled
    /\ \E i \in 1..Len(monthly_stats), j \in 1..Len(monthly_stats) :
          /\ i < j
          /\ \E user \in DictKeys(monthly_stats[i].user_stats) :
                user \in DictKeys(monthly_stats[j].user_stats)
          /\ \E user \in DictKeys(monthly_stats[j].user_stats) :
                user \notin DictKeys(monthly_stats[i].user_stats)

\* The number of cells of a row line: one less than its vertical bars.
CellCount(line) == Cardinality({i \in 1..Len(line) : line[i] = BOX_V}) - 1

\* C22: with show_models and group_by_user both on, the table has the seven
\* columns of the group-by-user layout (no Models column), every row has
\* seven cells, and the breakdown rows of each month are one per user of the
\* month, each showing a user and none a model.
C22_GroupByUserWins ==
    (RenderCall /\ call.args.show_models /\ call.args.group_by_user) =>
        /\ \A n \in 1..Len(result) : IsRow(result[n]) => CellCount(result[n]) = 7
        /\ \A k \in 1..7 : Cell(result[2], k) = COLUMNS_GROUP_BY_USER[k].name
        /\ \A k \in 1..7 : Cell(result[2], k) # <<"M","o","d","e","l","s">>
        /\ \A i \in 1..Len(call.args.monthly_stats) :
              LET names == SubRowNames(BlockAfter(result, call.args.monthly_stats, i))
                  users == DictKeys(call.args.monthly_stats[i].user_stats)
              IN  /\ Len(names) = Cardinality(users)
                  /\ Range(names) = {DisplayName(user, call.args.anonymize) : user \in users}
                  /\ Range(names) \cap call.args.monthly_stats[i].models = {}

\* A month of two models and two users is rendered with both options on.
C22_Witness ==
    /\ RenderCall /\ call.args.show_models /\ call.args.group_by_user
    /\ \E i \in 1..Len(call.args.monthly_stats) :
          /\ Len(call.args.monthly_stats[i].model_stats) >= 2
          /\ Len(call.args.monthly_stats[i].user_stats) >= 2
          /\ Len(SubRowNames(BlockAfter(result, call.args.monthly_stats, i))) = 2

AggregateCall == pc = "returned" /\ call.fn = "aggregate_by_month"

GrandTotalCall == pc = "returned" /\ call.fn = "compute_grand_total"

\* C23: aggregate_by_month of no events returns the empty list, and
\* compute_grand_total of no buckets returns a bucket labelled "Total" with
\* six zero accumulators and empty per-user and per-model maps.
C23_EmptyInputs ==
    /\ (AggregateCall /\ call.args = <<>>) => result = <<>>
    /\ (GrandTotalCall /\ call.args.monthly_stats = <<>>) =>
          LET tot == Load(result.heap, result.total)
          IN  /\ tot.month = <<"T","o","t","a","l">>
              /\ Numbers(tot) = <<0, 0, 0, 0, 0, 0>>
              /\ tot.user_stats = <<>>
              /\ tot.model_stats = <<>>

\* compute_grand_total has returned from a call with the empty list.
C23_Witness ==
    /\ GrandTotalCall
    /\ call.args.monthly_stats = <<>>
    /\ result.total.month # <<>>

ParseCall == pc = "returned" /\ call.fn = "_parse_row"

\* C24: _parse_row fails with KeyError whenever a column key is absent from
\* the row mapping, whatever the other fields hold, and with ValueError
\* whenever it fails on a row that has every key.
C24_FailureKindByRow ==
    ParseCall =>
        LET missing == \E c \in Range(Columns) : c \notin DOMAIN call.args
        IN  /\ missing => result.raised = "KeyError"
            /\ (~missing /\ result.raised # "none") => result.raised = "ValueError"

\* The rows read that parse_csv_stream skips: those _parse_row fails on with
\* an exception the loop catches.
Skipped == {k \in 1..Len(consumed) : RowError(RowAt(k)) \in Caught}

\* C25 as stated: each skipped row gets one warning, and the warning for the
\* k-th data row names row k.
C25_WarningNamesRowK ==
    LET skipped == Skipped
        warnings == Warnings
    IN  /\ Len(warnings) = Cardinality(skipped)
        /\ \A k \in skipped :
              Cardinality({n \in 1..Len(warnings) : warnings[n].row = k}) = 1

\* C25 amended: each skipped row gets one warning, and the warning for the
\* k-th data row names row k + 1, the header being row 1.
C25_WarningNamesFileRow ==
    LET skipped == Skipped
        warnings == Warnings
    IN  /\ Len(warnings) = Cardinality(skipped)
        /\ \A k \in skipped :
              Cardinality({n \in 1..Len(warnings) : warnings[n].row = k + 1}) = 1

\* The first and the third data row were skipped and the second was not.
C25_Witness ==
    /\ Len(consumed) = 3
    /\ Skipped = {1, 3}
    /\ Len(Warnings) = 2
    /\ Warnings[1].row = 2 /\ Warnings[2].row = 4

\* The Date field of the row of the call, as written.
WrittenDate == call.args["Date"]

\* C26: the event of a row whose Date ends in Z, "+hh:mm" or "-hh:mm" has a
\* naive timestamp (no tzinfo), with the date and the time of day written
\* before the zone marker.
C26_ZoneDiscarded ==
    (ParseCall /\ result.raised = "none" /\ Len(WrittenDate) >= 19) =>
        /\ result.event.date.tzinfo = NoneVal
        /\ result.event.date.year = DigitsValue(SubSeq(WrittenDate, 1, 4))
        /\ result.event.date.month = DigitsValue(SubSeq(WrittenDate, 6, 7))
        /\ result.event.date.day = DigitsValue(SubSeq(WrittenDate, 9, 10))
        /\ result.event.date.hour = DigitsValue(SubSeq(WrittenDate, 12, 13))
        /\ result.event.date.minute = DigitsValue(SubSeq(WrittenDate, 15, 16))
        /\ result.event.date.second = DigitsValue(SubSeq(WrittenDate, 18, 19))
        /\ MonthKey(result.event) = SubSeq(WrittenDate, 1, 7)

\* C27: without group_by_user, a month with k >= 1 models is rendered as
\* exactly k row lines followed by a separator: the first line has the month
\* label, "- " and the smallest model name, and the six totals; every further
\* line has "- " and the next model name in ascending order, its Month cell
\* and its six number cells blank.
C27_MonthBlockOfModels ==
    (RenderCall /\ ~call.args.group_by_user) =>
        \A i \in 1..Len(call.args.monthly_stats) :
            LET st == call.args.monthly_stats[i]
                k == Cardinality(st.models)
                m == MainRow(result, st.month)
                shown == [n \in 1..k |-> Cell(result[m + n - 1], 2)]
                name(n) == SubSeq(shown[n], 3, Len(shown[n]))
            IN  k >= 1 =>
                    /\ \A n \in 1..k : IsRow(result[m + n - 1]) /\ ~IsSubRow(result[m + n - 1])
                    /\ IsSeparator(result[m + k])
                    /\ Cell(result[m], 1) = st.month
                    /\ [c \in 1..6 |-> Cell(result[m], c + 2)] = NumberCells(st)
                    /\ \A n \in 2..k :
                          \A c \in (1..8) \ {2} : Cell(result[m + n - 1], c) = <<>>
                    /\ \A n \in 1..k : SubSeq(shown[n], 1, 2) = <<"-", " ">>
                    /\ {name(n) : n \in 1..k} = st.models
                    /\ \A n \in 1..(k - 1) : StrLess(name(n), name(n + 1))

\* A month with three models is rendered without group_by_user.
C27_Witness ==
    /\ RenderCall /\ ~call.args.group_by_user
    /\ \E i \in 1..Len(call.args.monthly_stats) :
          /\ Cardinality(call.args.monthly_stats[i].models) = 3
          /\ Cell(result[MainRow(result, call.args.monthly_stats[i].month) + 2], 2) # <<>>

\* The addresses of the UserStats objects a stored bucket refers to.
Addresses(bucket) == {bucket.user_stats[n].v : n \in 1..Len(bucket.user_stats)}

RowKey(e) ==
    IF call.args.group_by_user THEN DisplayName(e.user, call.args.anonymize)
    ELSE NormalizedModel(e)

\* The place of the first event listed under name among evs.
FirstSeen(evs, name) ==
    CHOOSE n \in 1..Len(evs) :
        /\ RowKey(evs[n]) = name
        /\ \A j \in 1..(n - 1) : RowKey(evs[j]) # name

\* The cost of the events listed under name among evs.
CostUnder(evs, name) == EventSums(SelectSeq(evs, LAMBDA e : RowKey(e) = name))[6]

\* The breakdown rows of the i-th month of the call, with the events of that
\* month in input order.
TiedRows(i) ==
    LET names == SubRowNames(BlockAfter(result, call.args.monthly_stats, i))
        evs == EventsOfMonth(call.args.events, call.args.monthly_stats[i].month)
    IN  {ab \in (1..Len(names)) \X (1..Len(names)) :
            /\ ab[1] < ab[2]
            /\ CostUnder(evs, names[ab[1]]) = CostUnder(evs, names[ab[2]])}

\* C29: two breakdown rows of one month with equal cost are in the order in
\* which their model (or user) first appears among the month's events.
C29_TiesInInputOrder ==
    (RenderCall /\ (call.args.show_models \/ call.args.group_by_user)) =>
        \A i \in 1..Len(call.args.monthly_stats) :
            LET names == SubRowNames(BlockAfter(result, call.args.monthly_stats, i))
                evs == EventsOfMonth(call.args.events, call.args.monthly_stats[i].month)
            IN  \A ab \in TiedRows(i) :
                    FirstSeen(evs, names[ab[1]]) < FirstSeen(evs, names[ab[2]])

\* Two rows of equal cost are shown against the alphabet: the later name
\* first, as in the input.
C29_Witness ==
    /\ RenderCall /\ (call.args.show_models \/ call.args.group_by_user)
    /\ \E i \in 1..Len(call.args.monthly_stats) :
          LET names == SubRowNames(BlockAfter(result, call.args.monthly_stats, i))
          IN  \E ab \in TiedRows(i) : StrLess(names[ab[2]], names[ab[1]])

\* The ways to reorder a sequence of n elements.
Orders(n) == {f \in [1..n -> 1..n] : Range(f) = 1..n}

\* A sequence reordered.
Reordered(s, order) == [n \in 1..Len(s) |-> s[order[n]]]

\* Two buckets with the same label, accumulators and model set, and the same
\* value for every model and every user, whatever the order of the entries.
SameValues(a, b) ==
    /\ a.month = b.month
    /\ Numbers(a) = Numbers(b)
    /\ a.models = b.models
    /\ Range(a.model_stats) = Range(b.model_stats)
    /\ Len(a.model_stats) = Len(b.model_stats)
    /\ Range(a.user_stats) = Range(b.user_stats)
    /\ Len(a.user_stats) = Len(b.user_stats)

====
